---- MODULE Spec2Model ----
(***************************************************************************)
(* Model of the run resubmission engine of LogicAppRunResubmitter:        *)
(*   - AzureService.executeWithRetry / resubmitRun / replayRun /          *)
(*     prefetchTriggerHistories  (azure-service.ts)                       *)
(*   - the IPC handlers azure:resubmitRuns and azure:cancelResubmit       *)
(*     (main/index.ts)                                                     *)
(* The main process is a single-threaded event loop: everything a handler *)
(* or a continuation does between two awaits is one atomic action here.   *)
(***************************************************************************)
EXTENDS Integers, Sequences, FiniteSets, TLC

\* ---------------------------------------------------------------- bounds
\* Largest runIds list of the general specification.
MaxRuns == 2
\* Failing responses the remote service may give during one batch.
MaxFaults == 6
\* Runs beyond one full concurrent batch in the wide specification.
Extra == 1
\* Pages of trigger histories one prefetch may walk through.
MaxPages == 2
\* Trigger histories on one page.
MaxHistories == 2
\* Runs per batch and failing responses per batch of the fair specification.
LiveRuns == 1
LiveFaults == 1
\* Failing responses during one batch of the envelope specification.
EnvelopeFaults == 1
\* Failing responses during one batch of the callback-replay specification.
ReplayFaults == 5
\* Failing responses during one batch of the in-order specification.
OrderedFaults == 2
\* Failing responses during one batch of the long-backoff specification.
BackoffFaults == 12
NotFoundFaults == 6
CacheFaults == 1
AuthFaults == 1
ErrorFaults == 10
\* Runs in the listing a run search walks through.
MaxListed == 3
\* Words in a trigger name.
MaxNameWords == 2
\* Runs in a batch of the earlier handler.
MaxBatch == 6

\* ------------------------------------------------------ program constants
CONCURRENCY == 10
MAX_PERMANENT_RETRIES == 5
MIN_DELAY == 1000
MAX_DELAY == 30000

VARIABLES
  env,                \* the environment of this behaviour (never changes)
  phase,              \* resubmitRuns handler: "idle", "prefetching",
                      \* "running", "returned", "rejected"
  runIds,             \* params.runIds (pairwise distinct identifiers 1..n)
  sequential,         \* params.sequential
  useCallbackUrl,     \* params.useCallbackUrl
  prefetch,           \* the handler's prefetchTriggerHistories call
  i,                  \* loop variable of the scheduling loop (1-based)
  run,                \* per position: the processRun task of that run
  results,            \* the handler's results object
  completedCount,     \* let completedCount
  resubmitCancelled,  \* module-level flag
  abortSignal,        \* the batch's own signal: "null", "clear", "aborted"
  resubmitAbortController,  \* module-level controller: "null", the batch's
                      \* "own" one, or the one of an "other" invocation
  triggerNameCache,   \* the workflow's entry is present in the cache
  callbackUrlCache,   \* the trigger's callback URL is cached
  inputsLinkCache,    \* run identifiers with a cached inputs-link URI
  events,             \* progress log of the renderer (all but "retrying",
                      \* which is kept per run in run[r].retry)
  faultsLeft,         \* failing responses the service may still give
  discoveryCalls,     \* run-detail GETs issued in this batch
  triggerTypeCache,   \* the workflow's trigger type is cached
  search,             \* the getRuns call of the azure:getRuns handler
  cachedTriggerName,  \* the value of the workflow's triggerNameCache entry
  typeLookup,         \* getTriggerType: the cached type ("": no entry), and
                      \* of the last call its number (mod 2), its result
                      \* and whether it made a remote request
  credential,         \* AzureService.credential is not null
  pacing              \* the earlier resubmitRuns handler (adaptive delay)

vars == <<env, phase, runIds, sequential, useCallbackUrl, prefetch, i, run,
          results, completedCount, resubmitCancelled, abortSignal,
          resubmitAbortController, triggerNameCache, callbackUrlCache,
          inputsLinkCache, events, faultsLeft, discoveryCalls,
          triggerTypeCache, search, cachedTriggerName, typeLookup,
          credential, pacing>>

Min(a, b) == IF a < b THEN a ELSE b
Max(a, b) == IF a > b THEN a ELSE b

RECURSIVE Pow2(_)
Pow2(k) == IF k <= 0 THEN 1 ELSE 2 * Pow2(k - 1)

\* ------------------------------------------------------------- responses
\* A Retry-After header: absent, numeric seconds, an HTTP date (ms), junk.
NoHeader == [kind |-> "absent", v |-> 0]

\* parseRetryAfter(response), with Date.now() = now
parseRetryAfter(header, now) ==
  IF header.kind = "absent" THEN 0
  ELSE IF header.kind = "seconds" THEN header.v * 1000
  ELSE IF header.kind = "date" THEN Max(0, header.v - now)
  ELSE 0

\* Substrings isRateLimitError looks for in the lower-cased message.
Indicators == {"429", "throttl", "rate limit", "too many requests"}

\* The indicators contained in the decimal text of a status code.
StatusTokens(status) == IF status = 429 THEN {"429"} ELSE {}

NoError == [name |-> "none"]

\* new DOMException('Aborted', 'AbortError')
AbortError == [name |-> "AbortError", hasStatus |-> FALSE, statusCode |-> 0,
               text |-> "Aborted", msgStatus |-> 0, tokens |-> {},
               retryAfterMs |-> 0]

\* azureGet: throw new Error(`API call failed (${status}): ${errorText}`)
\* (no statusCode, no retryAfterMs on the error object)
azureGetError(resp) ==
  [name |-> "Error", hasStatus |-> FALSE, statusCode |-> 0,
   text |-> "API call failed", msgStatus |-> resp.status,
   tokens |-> resp.body \cup StatusTokens(resp.status), retryAfterMs |-> 0]

\* azurePost: the error carries statusCode and retryAfterMs
azurePostError(resp) ==
  [name |-> "Error", hasStatus |-> TRUE, statusCode |-> resp.status,
   text |-> "API call failed", msgStatus |-> resp.status,
   tokens |-> resp.body \cup StatusTokens(resp.status),
   retryAfterMs |-> parseRetryAfter(resp.retryAfter, env.now)]

\* fetch rejects (network error, AbortSignal.timeout): a plain error
fetchError ==
  [name |-> "Error", hasStatus |-> FALSE, statusCode |-> 0,
   text |-> "fetch failed", msgStatus |-> 0, tokens |-> {},
   retryAfterMs |-> 0]

\* getToken: throw new Error('Not authenticated. Please sign in first.')
notAuthenticatedError ==
  [name |-> "Error", hasStatus |-> FALSE, statusCode |-> 0,
   text |-> "Not authenticated", msgStatus |-> 0, tokens |-> {},
   retryAfterMs |-> 0]

\* resubmitRun: `Could not determine trigger name for run ${runId}`; the
\* message holds the run identifier's own text.
noTriggerNameError(r) ==
  [name |-> "Error", hasStatus |-> FALSE, statusCode |-> 0,
   text |-> "Could not determine trigger name", msgStatus |-> 0,
   tokens |-> IF r \in env.marked THEN {"429"} ELSE {},
   retryAfterMs |-> 0]

\* azurePostJson: a plain Error, like azureGet's
azurePostJsonError(resp) ==
  [name |-> "Error", hasStatus |-> FALSE, statusCode |-> 0,
   text |-> "API call failed", msgStatus |-> resp.status,
   tokens |-> resp.body \cup StatusTokens(resp.status), retryAfterMs |-> 0]

\* replayRun: `Could not obtain callback URL for trigger "${triggerName}"`
noCallbackUrlError ==
  [name |-> "Error", hasStatus |-> FALSE, statusCode |-> 0,
   text |-> "Could not obtain callback URL", msgStatus |-> 0, tokens |-> {},
   retryAfterMs |-> 0]

\* replayRun: `No trigger inputs/outputs link found for run ${runId}. ...`
noInputsLinkError(r) ==
  [name |-> "Error", hasStatus |-> FALSE, statusCode |-> 0,
   text |-> "No trigger inputs/outputs link found", msgStatus |-> 0,
   tokens |-> IF r \in env.marked THEN {"429"} ELSE {},
   retryAfterMs |-> 0]

\* replayRun: `Failed to fetch trigger inputs (${status}): ${errorText}`
inputsFetchError(resp) ==
  [name |-> "Error", hasStatus |-> FALSE, statusCode |-> 0,
   text |-> "Failed to fetch trigger inputs", msgStatus |-> resp.status,
   tokens |-> resp.body \cup StatusTokens(resp.status), retryAfterMs |-> 0]

\* rawPost: the error carries statusCode, and no retryAfterMs
rawPostError(resp) ==
  [name |-> "Error", hasStatus |-> TRUE, statusCode |-> resp.status,
   text |-> "Callback URL call failed", msgStatus |-> resp.status,
   tokens |-> resp.body \cup StatusTokens(resp.status), retryAfterMs |-> 0]

\* error.message as kept in results.errors
Message(error) ==
  [text |-> error.text, status |-> error.msgStatus, tokens |-> error.tokens]

\* ------------------------------------------------------- classification
isRateLimitError(error) ==
  \/ (error.hasStatus /\ error.statusCode = 429)
  \/ error.tokens \cap Indicators # {}

isPermanentError(error) ==
  /\ error.hasStatus
  /\ error.statusCode >= 400
  /\ error.statusCode < 500
  /\ error.statusCode # 429

\* the rate-limit backoff with the exponent clamped too low
RateLimitBackoffLowClamp(attempt) ==
  Min(Pow2(Min(attempt - 1, 8)) * 1000, 300000)

\* the three backoff formulas of executeWithRetry (ms)
RateLimitBackoff(attempt) ==
  Min(Pow2(Min(attempt - 1, 10)) * 1000, 300000)

PermanentDelay(attempt) == Min(Pow2(attempt - 1) * 1000, 10000)

TransientBackoff(attempt) ==
  Min(Pow2(Min(attempt - 1, 6)) * 1000, 60000)

\* ------------------------------------------------------------ the state
NoRetry == [attempt |-> 0]

\* No request issued yet.
NoRequest == [to |-> "none"]

\* runDetails.properties?.trigger?.name: the trigger that fired run r
TriggerOf(r) == IF r \in env.timerRuns THEN "timer" ELSE "manual"

\* onRetryCalls counts the calls of the run's onRetry callback; sleepMs is
\* the delay of the cancellableSleep the run is in; triggerName is the
\* local variable of resubmitRun and replayRun.
NewTask == [pc |-> "pending", attempt |-> 0, outcome |-> "none",
            err |-> NoError, retry |-> NoRetry, req |-> NoRequest,
            onRetryCalls |-> 0, sleepMs |-> 0, triggerName |-> ""]

\* prefetchTriggerHistories not called
\* (more: the last page read named a further page)
NoPrefetch == [pc |-> "none", cached |-> 0, page |-> 0, req |-> NoRequest,
               more |-> FALSE]

NewResults == [success |-> 0, failed |-> 0, cancelled |-> FALSE,
               errors |-> <<>>]

\* The mutable state as one record, so that a handler's synchronous
\* continuation can be written as a composition of functions on it.
Cur ==
  [phase |-> phase, runIds |-> runIds, sequential |-> sequential,
   useCallbackUrl |-> useCallbackUrl, prefetch |-> prefetch, i |-> i,
   run |-> run, results |-> results, completedCount |-> completedCount,
   resubmitCancelled |-> resubmitCancelled, abortSignal |-> abortSignal,
   resubmitAbortController |-> resubmitAbortController,
   triggerNameCache |-> triggerNameCache,
   callbackUrlCache |-> callbackUrlCache,
   inputsLinkCache |-> inputsLinkCache, events |-> events,
   faultsLeft |-> faultsLeft, discoveryCalls |-> discoveryCalls,
   triggerTypeCache |-> triggerTypeCache, credential |-> credential,
   cachedTriggerName |-> cachedTriggerName, typeLookup |-> typeLookup]

Commit(t) ==
  \E u \in {t} :
       /\ phase' = u.phase
       /\ runIds' = u.runIds
       /\ sequential' = u.sequential
       /\ useCallbackUrl' = u.useCallbackUrl
       /\ prefetch' = u.prefetch
       /\ i' = u.i
       /\ run' = u.run
       /\ results' = u.results
       /\ completedCount' = u.completedCount
       /\ resubmitCancelled' = u.resubmitCancelled
       /\ abortSignal' = u.abortSignal
       /\ resubmitAbortController' = u.resubmitAbortController
       /\ triggerNameCache' = u.triggerNameCache
       /\ callbackUrlCache' = u.callbackUrlCache
       /\ inputsLinkCache' = u.inputsLinkCache
       /\ events' = u.events
       /\ faultsLeft' = u.faultsLeft
       /\ discoveryCalls' = u.discoveryCalls
       /\ triggerTypeCache' = u.triggerTypeCache
       /\ cachedTriggerName' = u.cachedTriggerName
       /\ typeLookup' = u.typeLookup
       /\ UNCHANGED <<env, search, credential, pacing>>

\* mainWindow.webContents.send('azure:resubmit-progress', ev), as far as the
\* renderer's listener (preload onResubmitProgress) records it.
Send(s, ev) ==
  IF env.listening THEN [s EXCEPT !.events = Append(@, ev)] ELSE s

ProgressEvent(s, runId, status) ==
  [runId |-> runId, status |-> status, current |-> s.completedCount,
   total |-> Len(s.runIds)]

\* ------------------------------------------------------------ processRun
EndTask(task, outcome) ==
  [task EXCEPT !.pc = "done", !.outcome = outcome, !.err = NoError,
               !.retry = NoRetry, !.req = NoRequest, !.sleepMs = 0,
               !.triggerName = ""]

\* processRun reporting a success without counting it in completedCount
ProcessRunSuccessNoCount(s, r) ==
  LET t == [s EXCEPT !.results.success = @ + 1,
                     !.run[r] = EndTask(@, "success")]
  IN Send(t, ProgressEvent(t, s.runIds[r], "success"))

\* processRun, after `await submitFn(...)` resolved
ProcessRunSuccess(s, r) ==
  LET t == [s EXCEPT !.results.success = @ + 1,
                     !.completedCount = @ + 1,
                     !.run[r] = EndTask(@, "success")]
  IN Send(t, ProgressEvent(t, s.runIds[r], "success"))

\* processRun without its catch block: the error leaves processRun
ProcessRunCatchRethrow(s, r, error) ==
  [s EXCEPT !.run[r] = EndTask(@, "rejected")]

\* processRun with a catch block that takes a cancellation for a failure
ProcessRunCatchAbortIsFailure(s, r, error) ==
  LET t == [s EXCEPT !.results.failed = @ + 1,
                     !.completedCount = @ + 1,
                     !.results.errors =
                        Append(@, [runId |-> s.runIds[r],
                                   error |-> Message(error)]),
                     !.run[r] = EndTask(@, "error")]
  IN Send(t, ProgressEvent(t, s.runIds[r], "error"))

\* processRun with a catch block that records a failure without reporting it
ProcessRunCatchNoEvent(s, r, error) ==
  IF error.name = "AbortError" \/ s.resubmitCancelled
  THEN [s EXCEPT !.run[r] = [EndTask(@, "aborted") EXCEPT
                               !.retry = s.run[r].retry]]
  ELSE [s EXCEPT !.results.failed = @ + 1,
                 !.completedCount = @ + 1,
                 !.results.errors =
                    Append(@, [runId |-> s.runIds[r],
                               error |-> Message(error)]),
                 !.run[r] = EndTask(@, "error")]

\* processRun, the catch block; a run given up without an event keeps the
\* last retry announced for it (the renderer drops a run's retry entry only
\* on its success or error event)
ProcessRunCatch(s, r, error) ==
  IF error.name = "AbortError" \/ s.resubmitCancelled
  THEN [s EXCEPT !.run[r] = [EndTask(@, "aborted") EXCEPT
                               !.retry = s.run[r].retry]]
  ELSE LET t == [s EXCEPT !.results.failed = @ + 1,
                          !.completedCount = @ + 1,
                          !.results.errors =
                             Append(@, [runId |-> s.runIds[r],
                                        error |-> Message(error)]),
                          !.run[r] = EndTask(@, "error")]
       IN Send(t, ProgressEvent(t, s.runIds[r], "error"))

\* -------------------------------------------------------------- requests
NoBody == [kind |-> "none"]

\* azureGet / azurePost / azurePostJson: a request to the management API
\* with `Authorization: Bearer ${token}` and a JSON content type
azureRequest(method) ==
  [to |-> "management", method |-> method, authorization |-> TRUE,
   contentType |-> "application/json", body |-> NoBody]

\* The call threw before any fetch.
NotSent == [to |-> "nowhere"]

\* getToken without the test of the credential
getTokenUnchecked(s, method) ==
  IF env.tokens THEN [to |-> "token", method |-> method]
  ELSE azureRequest(method)

\* `const token = await this.getToken()` at the head of azureGet, azurePost
\* and azurePostJson: what the caller awaits next. Without a credential the
\* call throws; otherwise the credential is asked for a token (a step of its
\* own where env.tokens says so) and the request is sent.
getToken(s, method) ==
  IF ~s.credential THEN NotSent
  ELSE IF env.tokens THEN [to |-> "token", method |-> method]
  ELSE azureRequest(method)

\* fetch(inputsLinkUri, { signal }): no headers at all
inputsRequest ==
  [to |-> "inputsLink", method |-> "GET", authorization |-> FALSE,
   contentType |-> "", body |-> NoBody]

\* rawPost sending the bearer token as the management calls do
rawPostWithBearer(url, body, contentType, method) ==
  [to |-> "callback", url |-> url, method |-> method,
   authorization |-> TRUE, contentType |-> contentType,
   body |-> IF body.kind \in {"undefined", "null"} THEN NoBody
            ELSE IF body.kind = "string"
            THEN [kind |-> "text", v |-> body.v]
            ELSE [kind |-> "json", v |-> body]]

\* rawPost(url, body, contentType, method): only a Content-Type header; the
\* body is left out when null or undefined, sent as it is when a string,
\* and JSON.stringify-ed otherwise
rawPost(url, body, contentType, method) ==
  [to |-> "callback", url |-> url, method |-> method,
   authorization |-> FALSE, contentType |-> contentType,
   body |-> IF body.kind \in {"undefined", "null"} THEN NoBody
            ELSE IF body.kind = "string"
            THEN [kind |-> "text", v |-> body.v]
            ELSE [kind |-> "json", v |-> body]]

\* ------------------------------------------- the trigger-input envelope
\* JavaScript values, as far as replayRun looks at them. An object is a
\* function from property names to strings; "" stands for any falsy string.
Undefined == [kind |-> "undefined"]
Null == [kind |-> "null"]
Str(v) == [kind |-> "string", v |-> v]
Obj(f) == [kind |-> "object", f |-> f]

\* String.prototype.toUpperCase on the method names in use
toUpperCase(m) ==
  IF m \in {"post", "Post", "POST"} THEN "POST"
  ELSE IF m \in {"put", "PUT"} THEN "PUT"
  ELSE m

\* A URL path is a sequence of tokens, "/" being one of them.
\* pathname.replace(/\/?$/, '/') + relativePath.replace(/^\//, '')
AppendPath(pathname, relativePath) ==
  LET base == IF Len(pathname) > 0 /\ pathname[Len(pathname)] = "/"
              THEN pathname ELSE Append(pathname, "/")
      rel == IF Len(relativePath) > 0 /\ Head(relativePath) = "/"
             THEN Tail(relativePath) ELSE relativePath
  IN base \o rel

\* the replay request built without looking into the envelope's body
BuildReplayBodyAsIs(triggerInputs, callbackUrl) ==
  IF triggerInputs.kind = "object"
  THEN rawPost(callbackUrl,
               IF triggerInputs.hasBody THEN triggerInputs.body
               ELSE Undefined,
               "application/json",
               IF triggerInputs.method # ""
               THEN toUpperCase(triggerInputs.method) ELSE "POST")
  ELSE rawPost(callbackUrl, triggerInputs, "application/json", "POST")

\* replayRun, step 5: body, content type, method and target of the replay
\* request, from the parsed trigger inputs and the callback URL
BuildReplay(triggerInputs, callbackUrl) ==
  IF triggerInputs.kind = "object"
  THEN LET method == IF triggerInputs.method # ""
                     THEN toUpperCase(triggerInputs.method) ELSE "POST"
           targetUrl ==
             IF Len(triggerInputs.relativePath) > 0
             THEN [callbackUrl EXCEPT
                     !.pathname = AppendPath(@, triggerInputs.relativePath)]
             ELSE callbackUrl
           headers == triggerInputs.headers
           fromHeaders ==
             IF "Content-Type" \in DOMAIN headers
                /\ headers["Content-Type"] # ""
             THEN headers["Content-Type"]
             ELSE IF "content-type" \in DOMAIN headers
                     /\ headers["content-type"] # ""
             THEN headers["content-type"]
             ELSE "application/json"
           rawBody == triggerInputs.body
           wrapper == /\ triggerInputs.hasBody
                      /\ rawBody.kind = "object"
                      /\ "$content" \in DOMAIN rawBody.f
           body == IF ~triggerInputs.hasBody THEN Undefined
                   ELSE IF wrapper THEN Str(rawBody.f["$content"])
                   ELSE rawBody
           contentType ==
             IF /\ wrapper
                /\ "$content-type" \in DOMAIN rawBody.f
                /\ rawBody.f["$content-type"] # ""
             THEN rawBody.f["$content-type"]
             ELSE fromHeaders
       IN rawPost(targetUrl, body, contentType, method)
  ELSE rawPost(callbackUrl, triggerInputs, "application/json", "POST")

\* ------------------------------------------------------------- replayRun
\* step 4: fetch the trigger-input content from the inputs-link URI
ReplayFetchInputs(s, r) ==
  [s EXCEPT !.run[r].pc = "inputs", !.run[r].req = inputsRequest]

\* step 3 without the cache lookup: the trigger history is always fetched
ReplayInputsLinkStepUncached(s, r) ==
  [s EXCEPT !.run[r].pc = "hist", !.run[r].req = azureRequest("GET")]

\* step 3: the inputs link, prefetched or fetched per run
ReplayInputsLinkStep(s, r) ==
  IF s.runIds[r] \in s.inputsLinkCache
  THEN ReplayFetchInputs(s, r)
  ELSE [s EXCEPT !.run[r].pc = "hist", !.run[r].req = getToken(s, "GET")]

\* step 2: the callback URL, cached or asked for
ReplayCallbackStep(s, r) ==
  IF s.callbackUrlCache
  THEN ReplayInputsLinkStep(s, r)
  ELSE [s EXCEPT !.run[r].pc = "cb", !.run[r].req = getToken(s, "POST")]

\* replayRun up to its first await (step 1: the trigger name)
ReplayRunStart(s, r) ==
  IF s.triggerNameCache
  THEN ReplayCallbackStep(
         [s EXCEPT !.run[r].triggerName = s.cachedTriggerName], r)
  ELSE [s EXCEPT !.run[r].pc = "get", !.run[r].req = getToken(s, "GET"),
                 !.discoveryCalls = IF s.credential THEN @ + 1 ELSE @]

\* ------------------------------------------------------ executeWithRetry
\* resubmitRun with the cache lookup left out: every call discovers.
ResubmitRunStartUncached(s, r) ==
  [s EXCEPT !.run[r].pc = "get", !.run[r].req = azureRequest("GET"),
            !.discoveryCalls = @ + 1]

\* resubmitRun up to its first await: the cache lookup decides whether the
\* run-detail GET (trigger-name discovery) or the resubmit POST is issued.
ResubmitRunStart(s, r) ==
  IF s.triggerNameCache
  THEN [s EXCEPT !.run[r].pc = "post", !.run[r].req = getToken(s, "POST"),
                 !.run[r].triggerName = s.cachedTriggerName]
  ELSE [s EXCEPT !.run[r].pc = "get", !.run[r].req = getToken(s, "GET"),
                 !.discoveryCalls = IF s.credential THEN @ + 1 ELSE @]

\* submitFn: replayRunWithRetry or resubmitRunWithRetry hands its
\* operation to executeWithRetry
Operation(s, r) ==
  IF s.useCallbackUrl THEN ReplayRunStart(s, r) ELSE ResubmitRunStart(s, r)

\* the backoff sleep entered without a call of onRetry
BackoffSilent(s, r, reason, delayMs, error) ==
  LET t == [s EXCEPT !.run[r].req = NoRequest, !.run[r].triggerName = ""]
  IN IF t.abortSignal = "aborted"
     THEN ProcessRunCatch(t, r, AbortError)
     ELSE [t EXCEPT !.run[r].pc = "sleep", !.run[r].err = error,
                    !.run[r].sleepMs = delayMs]

\* onRetry(...) followed by cancellableSleep(delay, abortSignal)
Backoff(s, r, reason, delayMs, error) ==
  LET t == [s EXCEPT !.run[r].retry =
                        [attempt |-> s.run[r].attempt, reason |-> reason,
                         delayMs |-> delayMs,
                         current |-> s.completedCount],
                     !.run[r].onRetryCalls = @ + 1,
                     !.run[r].req = NoRequest,
                     !.run[r].triggerName = ""]
  IN IF t.abortSignal = "aborted"
     THEN ProcessRunCatch(t, r, AbortError)
     ELSE [t EXCEPT !.run[r].pc = "sleep", !.run[r].err = error,
                    !.run[r].sleepMs = delayMs]

\* the catch block with the cap applied to rate-limited failures too
OperationFailedAllCapped(s, r, error) ==
  LET attempt == s.run[r].attempt IN
  IF s.abortSignal = "aborted" THEN ProcessRunCatch(s, r, AbortError)
  ELSE IF attempt >= MAX_PERMANENT_RETRIES THEN ProcessRunCatch(s, r, error)
  ELSE IF isRateLimitError(error)
  THEN Backoff(s, r, "Rate-limited (429)", RateLimitBackoff(attempt), error)
  ELSE IF isPermanentError(error)
  THEN Backoff(s, r, "Client error", PermanentDelay(attempt), error)
  ELSE Backoff(s, r, "Transient error", TransientBackoff(attempt), error)

\* the catch block with transient failures retried without a cap
OperationFailedTransientUncapped(s, r, error) ==
  LET attempt == s.run[r].attempt IN
  IF s.abortSignal = "aborted" THEN ProcessRunCatch(s, r, AbortError)
  ELSE IF isRateLimitError(error)
  THEN Backoff(s, r, "Rate-limited (429)", RateLimitBackoff(attempt), error)
  ELSE IF isPermanentError(error)
  THEN IF attempt >= MAX_PERMANENT_RETRIES
       THEN ProcessRunCatch(s, r, error)
       ELSE Backoff(s, r, "Client error", PermanentDelay(attempt), error)
  ELSE Backoff(s, r, "Transient error", TransientBackoff(attempt), error)

\* the catch block with the permanent class tested before the rate limit
OperationFailedPermanentFirst(s, r, error) ==
  LET attempt == s.run[r].attempt IN
  IF s.abortSignal = "aborted" THEN ProcessRunCatch(s, r, AbortError)
  ELSE IF isPermanentError(error)
  THEN IF attempt >= MAX_PERMANENT_RETRIES
       THEN ProcessRunCatch(s, r, error)
       ELSE Backoff(s, r, "Client error", PermanentDelay(attempt), error)
  ELSE IF isRateLimitError(error)
  THEN Backoff(s, r, "Rate-limited (429)", RateLimitBackoff(attempt), error)
  ELSE IF attempt >= MAX_PERMANENT_RETRIES
       THEN ProcessRunCatch(s, r, error)
       ELSE Backoff(s, r, "Transient error", TransientBackoff(attempt),
                    error)

\* the catch block with the cap reached only at exactly the fifth attempt
OperationFailedCapAtFifthOnly(s, r, error) ==
  LET attempt == s.run[r].attempt IN
  IF s.abortSignal = "aborted" THEN ProcessRunCatch(s, r, AbortError)
  ELSE IF isRateLimitError(error)
  THEN Backoff(s, r, "Rate-limited (429)", RateLimitBackoff(attempt), error)
  ELSE IF isPermanentError(error)
  THEN IF attempt = MAX_PERMANENT_RETRIES
       THEN ProcessRunCatch(s, r, error)
       ELSE Backoff(s, r, "Client error", PermanentDelay(attempt), error)
  ELSE IF attempt = MAX_PERMANENT_RETRIES
       THEN ProcessRunCatch(s, r, error)
       ELSE Backoff(s, r, "Transient error", TransientBackoff(attempt),
                    error)

\* the catch block of executeWithRetry
OperationFailed(s, r, error) ==
  LET attempt == s.run[r].attempt IN
  IF s.abortSignal = "aborted" THEN ProcessRunCatch(s, r, AbortError)
  ELSE IF isRateLimitError(error)
  THEN Backoff(s, r, "Rate-limited (429)", RateLimitBackoff(attempt), error)
  ELSE IF isPermanentError(error)
  THEN IF attempt >= MAX_PERMANENT_RETRIES
       THEN ProcessRunCatch(s, r, error)
       ELSE Backoff(s, r, "Client error", PermanentDelay(attempt), error)
  ELSE IF attempt >= MAX_PERMANENT_RETRIES
       THEN ProcessRunCatch(s, r, error)
       ELSE Backoff(s, r, "Transient error", TransientBackoff(attempt),
                    error)

\* The operation threw before its first fetch (getToken found no
\* credential): the catch block runs at once.
Thrown(s, r) ==
  IF s.run[r].req = NotSent
  THEN OperationFailed(s, r, notAuthenticatedError)
  ELSE s

\* top of the while loop: abort check, attempt++, operation()
BeginAttempt(s, r) ==
  IF s.abortSignal = "aborted"
  THEN ProcessRunCatch(s, r, AbortError)
  ELSE Thrown(Operation(
                [s EXCEPT !.run[r].attempt = @ + 1, !.run[r].err = NoError,
                          !.run[r].retry = NoRetry, !.run[r].sleepMs = 0,
                          !.run[r].triggerName = ""],
                r), r)

\* processRun up to its first await
ProcessRun(s, r) ==
  IF s.resubmitCancelled
  THEN [s EXCEPT !.run[r] = EndTask(@, "skipped")]
  ELSE BeginAttempt(s, r)

\* ------------------------------------------------------ scheduling loops
\* the handler's tail: leaving the loop and `return results`
\* the handler's tail without the cleanup of the inputs-link cache
FinishNoClear(s) == [s EXCEPT !.phase = "returned"]

\* a cleanup that drops the callback URL along with the inputs links
clearEveryReplayCache(s) ==
  [s EXCEPT !.inputsLinkCache = {}, !.callbackUrlCache = FALSE]

\* clearInputsLinkCache(): this.inputsLinkCache.clear()
clearInputsLinkCache(s) == [s EXCEPT !.inputsLinkCache = {}]

Finish(s) ==
  LET t == IF s.useCallbackUrl THEN clearInputsLinkCache(s) ELSE s
  IN [t EXCEPT !.phase = "returned"]

\* an exception leaves the handler: the invocation rejects
Reject(s) == [s EXCEPT !.phase = "rejected"]

\* The state of an awaited processRun promise, or of Promise.all over the
\* positions in set.
Awaited(s, set) ==
  IF \E r \in set : s.run[r].outcome = "rejected" THEN "rejected"
  ELSE IF \A r \in set : s.run[r].pc = "done" THEN "fulfilled"
  ELSE "pending"

\* the loops breaking on cancellation without telling the renderer
CancelBreakSilent(s) == [s EXCEPT !.results.cancelled = TRUE]

\* the `if (resubmitCancelled) { ... break }` body of both loops
CancelBreak(s) ==
  LET t == [s EXCEPT !.results.cancelled = TRUE]
  IN Send(t, ProgressEvent(t, 0, "cancelled"))

\* the sequential branch with processRun not awaited
RECURSIVE SeqLoopNoAwait(_, _)
SeqLoopNoAwait(s, k) ==
  IF k > Len(s.runIds) THEN Finish([s EXCEPT !.i = k])
  ELSE IF s.resubmitCancelled THEN Finish(CancelBreak([s EXCEPT !.i = k]))
  ELSE SeqLoopNoAwait(ProcessRun([s EXCEPT !.i = k], k), k + 1)

\* sequential branch, from the loop test with i = k
RECURSIVE SeqLoop(_, _)
SeqLoop(s, k) ==
  IF k > Len(s.runIds) THEN Finish([s EXCEPT !.i = k])
  ELSE IF s.resubmitCancelled THEN Finish(CancelBreak([s EXCEPT !.i = k]))
  ELSE LET t == ProcessRun([s EXCEPT !.i = k], k)
       IN IF Awaited(t, {k}) = "rejected" THEN Reject(t)
          ELSE IF Awaited(t, {k}) = "fulfilled" THEN SeqLoop(t, k + 1)
          ELSE t

\* batch.map(processRun) over positions lo..hi
RECURSIVE StartBatch(_, _, _)
StartBatch(s, lo, hi) ==
  IF lo > hi THEN s ELSE StartBatch(ProcessRun(s, lo), lo + 1, hi)

BatchOf(s, k) == k .. Min(k + CONCURRENCY - 1, Len(s.runIds))

\* parallel branch, from the loop test with i = k
RECURSIVE ParLoop(_, _)
ParLoop(s, k) ==
  IF k > Len(s.runIds) THEN Finish([s EXCEPT !.i = k])
  ELSE IF s.resubmitCancelled THEN Finish(CancelBreak([s EXCEPT !.i = k]))
  ELSE LET t == StartBatch([s EXCEPT !.i = k], k,
                           Min(k + CONCURRENCY - 1, Len(s.runIds)))
       IN IF Awaited(t, BatchOf(t, k)) = "rejected" THEN Reject(t)
          ELSE IF Awaited(t, BatchOf(t, k)) = "fulfilled"
          THEN ParLoop(t, k + CONCURRENCY)
          ELSE t

\* the loop going on as soon as one run of the batch has settled
ResumeOnFirst(s) ==
  IF s.phase # "running" THEN s
  ELSE IF s.sequential
  THEN IF s.run[s.i].pc = "done" THEN SeqLoop(s, s.i + 1) ELSE s
  ELSE IF \E r \in BatchOf(s, s.i) : s.run[r].pc = "done"
       THEN ParLoop(s, s.i + CONCURRENCY)
       ELSE s

\* the awaited promise of the loop (processRun, or Promise.all of the
\* batch) has settled: the loop goes on
Resume(s) ==
  IF s.phase # "running" THEN s
  ELSE LET awaited == IF s.sequential THEN {s.i} ELSE BatchOf(s, s.i)
       IN IF Awaited(s, awaited) = "rejected" THEN Reject(s)
          ELSE IF Awaited(s, awaited) = "pending" THEN s
          ELSE IF s.sequential THEN SeqLoop(s, s.i + 1)
          ELSE ParLoop(s, s.i + CONCURRENCY)

\* the handler resetting the cancel flag only after the prefetch block
StartLoopsForgetCancel(s) ==
  LET t == [s EXCEPT !.phase = "running", !.resubmitCancelled = FALSE]
  IN IF t.sequential THEN SeqLoop(t, 1) ELSE ParLoop(t, 1)

\* the handler after the prefetch block: the scheduling loops
StartLoops(s) ==
  LET t == [s EXCEPT !.phase = "running"]
  IN IF t.sequential THEN SeqLoop(t, 1) ELSE ParLoop(t, 1)

\* ------------------------------------------- prefetchTriggerHistories
\* step 3: the next page of trigger histories is asked for
PrefetchPage(s) ==
  [s EXCEPT !.prefetch.pc = "page", !.prefetch.page = @ + 1,
            !.prefetch.req = getToken(s, "GET")]

\* step 2: the callback URL, cached or asked for
PrefetchCallbackStep(s) ==
  IF s.callbackUrlCache THEN PrefetchPage(s)
  ELSE [s EXCEPT !.prefetch.pc = "cb",
                 !.prefetch.req = getToken(s, "POST")]

\* prefetchTriggerHistories up to its first await (step 1: trigger name)
PrefetchStart(s) ==
  IF s.triggerNameCache THEN PrefetchCallbackStep(s)
  ELSE [s EXCEPT !.prefetch.pc = "get",
                 !.prefetch.req = getToken(s, "GET"),
                 !.discoveryCalls = IF s.credential THEN @ + 1 ELSE @]

\* the prefetch threw and the handler rejects with it
PrefetchFailedFatal(s) ==
  Reject([s EXCEPT !.prefetch.pc = "failed", !.prefetch.req = NoRequest])

\* the handler's catch around the prefetch: warn, go on with the runs
PrefetchFailed(s) ==
  StartLoops([s EXCEPT !.prefetch.pc = "failed",
                       !.prefetch.req = NoRequest])

\* The prefetch threw before its next fetch (no credential).
PrefetchThrown(s) ==
  IF s.phase = "prefetching" /\ s.prefetch.req = NotSent
  THEN PrefetchFailed(s)
  ELSE s

\* prefetchTriggerHistories returned
PrefetchDone(s) ==
  StartLoops([s EXCEPT !.prefetch.pc = "done", !.prefetch.req = NoRequest])

\* ------------------------------------------------------------ responses
Ok == [kind |-> "http", status |-> 200, body |-> {}, retryAfter |-> NoHeader,
       trigger |-> TRUE]

Http(status, body, header) ==
  [kind |-> "http", status |-> status, body |-> body, retryAfter |-> header,
   trigger |-> TRUE]

\* One response of each failure class.
CoarseResponses ==
  {Ok, Http(429, {}, NoHeader), Http(404, {}, NoHeader),
   Http(500, {}, NoHeader)}

\* Every combination the classification looks at.
RichResponses ==
  {Ok, [Ok EXCEPT !.trigger = FALSE],
   [kind |-> "neterr", status |-> 0, body |-> {}, retryAfter |-> NoHeader,
    trigger |-> FALSE]}
  \cup {Http(st, b, h) :
          st \in {404, 429, 500},
          b \in {{}, {"throttl"}},
          h \in {NoHeader, [kind |-> "seconds", v |-> 3]}}

\* Responses with a 4xx status other than 429, whatever the body says.
ClientErrorResponses ==
  {Http(404, b, h) :
     b \in {{}, {"throttl"}},
     h \in {NoHeader, [kind |-> "seconds", v |-> 3]}}

\* Failures without any rate-limit indicator and without a 4xx status.
TransientResponses ==
  {[kind |-> "neterr", status |-> 0, body |-> {}, retryAfter |-> NoHeader,
    trigger |-> FALSE],
   Http(500, {}, NoHeader), Http(500, {}, [kind |-> "seconds", v |-> 3])}

\* Success, and failures that are rate-limited by their status, by their
\* body, or by both.
RateLimitedResponses ==
  {Ok, Http(429, {}, NoHeader), Http(500, {"throttl"}, NoHeader),
   Http(429, {"throttl"}, [kind |-> "seconds", v |-> 3])}

\* Every request is answered 200; the body may lack what the caller reads
\* from it (a trigger history without inputsLink and outputsLink).
NoLinkResponses == {Ok, [Ok EXCEPT !.trigger = FALSE]}

\* The responses the service of this behaviour can give.
Responses ==
  IF env.service = "coarse" THEN CoarseResponses
  ELSE IF env.service = "no link" THEN NoLinkResponses
  ELSE IF env.service = "rate limited" THEN RateLimitedResponses
  ELSE IF env.service = "client errors" THEN ClientErrorResponses
  ELSE IF env.service = "transient" THEN TransientResponses
  ELSE RichResponses

\* --------------------------------------------------------------- actions
\* ipcMain.handle('azure:resubmitRuns') with runIds = 1..n, up to its first
\* await (or to its return when no run is left in flight). An invocation
\* arriving while another one is still running is modelled for an empty
\* list in standard mode: it resets the module-level flag, replaces the
\* module-level controller and returns at once.
ResubmitRuns(n, seq, cb) ==
  IF phase \in {"prefetching", "running"}
  THEN /\ env.overlap
       /\ n = 0
       /\ ~cb
       /\ Commit([Cur EXCEPT !.resubmitCancelled = FALSE,
                             !.resubmitAbortController = "other"])
  ELSE LET s0 == [Cur EXCEPT !.phase = "prefetching",
                             !.runIds = [k \in 1..n |-> k],
                             !.sequential = seq,
                             !.useCallbackUrl = cb,
                             !.prefetch = NoPrefetch,
                             !.i = 1,
                             !.run = [k \in 1..n |-> NewTask],
                             !.results = NewResults,
                             !.resubmitCancelled = FALSE,
                             !.resubmitAbortController = "own",
                             !.abortSignal = "clear",
                             !.completedCount = 0,
                             !.events = <<>>,
                             !.faultsLeft = env.faults,
                             !.discoveryCalls = 0]
       IN Commit(IF cb
                 THEN PrefetchThrown(PrefetchStart(
                        Send(s0, [runId |-> 0, status |-> "prefetching",
                                  current |-> 0, total |-> n])))
                 ELSE StartLoops(s0))

\* Whether the response lets the awaited call fail. The field trigger of
\* a response says that its body carries what the caller reads from it: the
\* trigger name, the callback URL value, the inputs link.
Fails(pc, resp) ==
  \/ resp.kind = "neterr"
  \/ resp.status # 200
  \/ (pc \in {"get", "cb", "hist"} /\ ~resp.trigger)

\* resubmitRun going on to the resubmit POST without a trigger name
GetSettledPostAnyway(s, r, resp) ==
  IF resp.kind = "neterr" THEN OperationFailed(s, r, fetchError)
  ELSE IF resp.status # 200 THEN OperationFailed(s, r, azureGetError(resp))
  ELSE [s EXCEPT !.triggerNameCache = @ \/ resp.trigger,
                 !.run[r].pc = "post",
                 !.run[r].req = azureRequest("POST")]

\* The run-detail GET of resubmitRun has settled.
GetSettled(s, r, resp) ==
  IF resp.kind = "neterr" THEN OperationFailed(s, r, fetchError)
  ELSE IF resp.status # 200 THEN OperationFailed(s, r, azureGetError(resp))
  ELSE IF ~resp.trigger THEN OperationFailed(s, r, noTriggerNameError(r))
  ELSE [s EXCEPT !.triggerNameCache = TRUE,
                 !.cachedTriggerName = TriggerOf(r),
                 !.run[r].triggerName = TriggerOf(r),
                 !.run[r].pc = "post",
                 !.run[r].req = getToken(s, "POST")]

\* The resubmit POST of resubmitRun has settled.
PostSettled(s, r, resp) ==
  IF resp.kind = "neterr" THEN OperationFailed(s, r, fetchError)
  ELSE IF resp.status # 200 THEN OperationFailed(s, r, azurePostError(resp))
  ELSE ProcessRunSuccess(s, r)

\* replayRun: the request run r awaits (pc) has settled with resp
ReplaySettled(s, r, resp) ==
  LET pc == s.run[r].pc IN
  IF resp.kind = "neterr" THEN OperationFailed(s, r, fetchError)
  ELSE IF pc = "get"
  THEN IF resp.status # 200 THEN OperationFailed(s, r, azureGetError(resp))
       ELSE IF ~resp.trigger
       THEN OperationFailed(s, r, noTriggerNameError(r))
       ELSE ReplayCallbackStep(
              [s EXCEPT !.triggerNameCache = TRUE,
                        !.cachedTriggerName = TriggerOf(r),
                        !.run[r].triggerName = TriggerOf(r)], r)
  ELSE IF pc = "cb"
  THEN IF resp.status # 200
       THEN OperationFailed(s, r, azurePostJsonError(resp))
       ELSE IF ~resp.trigger THEN OperationFailed(s, r, noCallbackUrlError)
       ELSE ReplayInputsLinkStep([s EXCEPT !.callbackUrlCache = TRUE], r)
  ELSE IF pc = "hist"
  THEN IF resp.status # 200 THEN OperationFailed(s, r, azureGetError(resp))
       ELSE IF ~resp.trigger
       THEN OperationFailed(s, r, noInputsLinkError(r))
       ELSE ReplayFetchInputs(s, r)
  ELSE IF pc = "inputs"
  THEN IF resp.status # 200
       THEN OperationFailed(s, r, inputsFetchError(resp))
       ELSE [s EXCEPT !.run[r].pc = "replay",
                      !.run[r].req =
                         BuildReplay(env.triggerInputs, env.callbackUrl)]
  ELSE IF resp.status # 200 THEN OperationFailed(s, r, rawPostError(resp))
  ELSE ProcessRunSuccess(s, r)

\* `for (const hist of histories)`, from the k-th history of the page; a
\* history is the run it belongs to (0: none of the requested ones, or no
\* name) and whether it has an inputs or outputs link
RECURSIVE ScanHistories(_, _, _)
ScanHistories(s, histories, k) ==
  IF k > Len(histories) THEN s
  ELSE IF histories[k].id \notin {s.runIds[j] : j \in DOMAIN s.runIds}
  THEN ScanHistories(s, histories, k + 1)
  ELSE LET t == IF histories[k].uri
                THEN [s EXCEPT !.inputsLinkCache = @ \cup {histories[k].id},
                               !.prefetch.cached = @ + 1]
                ELSE s
       IN IF t.prefetch.cached >= Len(t.runIds) THEN t
          ELSE ScanHistories(t, histories, k + 1)

\* prefetchTriggerHistories: the request it awaits has settled with resp;
\* histories is the page of trigger histories received, and next says
\* whether the page names a further page
PrefetchSettled(s, resp, histories, next) ==
  LET pc == s.prefetch.pc IN
  IF resp.kind = "neterr" \/ resp.status # 200 THEN PrefetchFailed(s)
  ELSE IF pc = "get"
  THEN IF ~resp.trigger THEN PrefetchFailed(s)
       ELSE PrefetchCallbackStep(
              [s EXCEPT !.triggerNameCache = TRUE,
                        !.cachedTriggerName = TriggerOf(1)])
  ELSE IF pc = "cb"
  THEN PrefetchPage([s EXCEPT !.callbackUrlCache = @ \/ resp.trigger])
  ELSE LET t == ScanHistories([s EXCEPT !.prefetch.more = next],
                              histories, 1)
       IN IF t.prefetch.cached >= Len(t.runIds) THEN PrefetchDone(t)
          ELSE IF next
          THEN [t EXCEPT !.prefetch.pc = "pause",
                         !.prefetch.req = NoRequest]
          ELSE PrefetchDone(t)

\* The pages of trigger histories a service may send to a batch.
HistoryPages(ids) ==
  UNION {[1..n -> {[id |-> 0, uri |-> FALSE]}
                  \cup {[id |-> x, uri |-> u] : x \in ids, u \in BOOLEAN}] :
           n \in 0..MaxHistories}

\* The network call task r awaits settles with resp; task 0 is the
\* handler's own prefetch, the others are the runs. A service that answers
\* in order answers a run's request only when no earlier run waits for one.
Respond(r, resp) ==
  IF r = 0
  THEN /\ phase = "prefetching"
       /\ prefetch.pc \in {"get", "cb", "page"}
       /\ prefetch.req.to # "token"
       /\ (resp.kind = "neterr" \/ resp.status # 200
           \/ (prefetch.pc = "get" /\ ~resp.trigger))
            => (faultsLeft > 0 /\ 0 \in env.mayFail)
       /\ \E histories \in HistoryPages({runIds[k] : k \in DOMAIN runIds}),
             next \in BOOLEAN :
            /\ (prefetch.pc # "page" => (histories = <<>> /\ ~next))
            /\ (next => prefetch.page < MaxPages)
            /\ LET s == IF resp.kind = "neterr" \/ resp.status # 200
                           \/ (prefetch.pc = "get" /\ ~resp.trigger)
                        THEN [Cur EXCEPT !.faultsLeft = @ - 1] ELSE Cur
               IN Commit(PrefetchThrown(
                           PrefetchSettled(s, resp, histories, next)))
  ELSE /\ phase = "running"
       /\ run[r].pc \in {"get", "post", "cb", "hist", "inputs", "replay"}
       /\ run[r].req.to # "token"
       /\ Fails(run[r].pc, resp) => (faultsLeft > 0 /\ r \in env.mayFail)
       /\ env.inOrder => \A k \in 1..(r - 1) : run[k].req = NoRequest
       /\ LET s == IF Fails(run[r].pc, resp)
                   THEN [Cur EXCEPT !.faultsLeft = @ - 1] ELSE Cur
              t == IF useCallbackUrl THEN ReplaySettled(s, r, resp)
                   ELSE IF run[r].pc = "get" THEN GetSettled(s, r, resp)
                   ELSE PostSettled(s, r, resp)
          IN Commit(Resume(Thrown(t, r)))

\* A timer fires: the one of run r's cancellableSleep (next iteration of
\* the retry loop), or for task 0 the prefetch's sleep(300) between pages.
TimerFires(r) ==
  IF r = 0
  THEN /\ phase = "prefetching"
       /\ prefetch.pc = "pause"
       /\ Commit(PrefetchThrown(PrefetchPage(Cur)))
  ELSE /\ phase = "running"
       /\ run[r].pc = "sleep"
       /\ Commit(Resume(BeginAttempt(Cur, r)))

\* cancel handler that leaves the sleeping runs to their timers
WakeNobody(s, k) == s

\* abort(): every pending cancellableSleep rejects with AbortError, which
\* leaves executeWithRetry and lands in processRun's catch block.
RECURSIVE WakeSleepers(_, _)
WakeSleepers(s, k) ==
  IF k > Len(s.runIds) THEN s
  ELSE IF s.run[k].pc = "sleep"
  THEN WakeSleepers(ProcessRunCatch(s, k, AbortError), k + 1)
  ELSE WakeSleepers(s, k + 1)

\* ipcMain.handle('azure:cancelResubmit'): the flag is set and the
\* module-level controller aborted, which is the batch's own one unless a
\* later invocation has replaced it
CancelResubmit ==
  LET s == [Cur EXCEPT !.resubmitCancelled = TRUE]
      t == IF s.resubmitAbortController = "own" /\ s.abortSignal = "clear"
           THEN WakeSleepers([s EXCEPT !.abortSignal = "aborted"], 1)
           ELSE s
  IN Commit(Resume(t))

\* Tasks that await something: the prefetch (0) and the runs.
Tasks == 0 .. Len(runIds)

Next ==
  \/ \E n \in env.sizes, seq \in env.modes, cb \in env.callback :
       ResubmitRuns(n, seq, cb)
  \/ \E r \in Tasks, resp \in Responses : Respond(r, resp)
  \/ \E r \in Tasks : TimerFires(r)
  \/ CancelResubmit

\* name.toLowerCase(), word by word; a name is the sequence of its words
Lower(word) ==
  IF word = "Manual" THEN "manual"
  ELSE IF word = "HTTP" THEN "http"
  ELSE IF word = "Recurrence" THEN "recurrence"
  ELSE IF word = "When" THEN "when"
  ELSE word

\* the heuristic without toLowerCase
inferTriggerTypeFromNameCaseSensitive(name) ==
  LET includes(w) == \E k \in DOMAIN name : name[k] = w
  IN IF name = <<>> THEN ""
     ELSE IF includes("request") \/ includes("http") \/ name = <<"manual">>
     THEN "Http"
     ELSE IF includes("recurrence") \/ includes("schedule")
     THEN "Recurrence"
     ELSE ""

\* inferTriggerTypeFromName(name); "" stands for null
inferTriggerTypeFromName(name) ==
  LET lower == [k \in DOMAIN name |-> Lower(name[k])]
      includes(w) == \E k \in DOMAIN lower : lower[k] = w
  IN IF name = <<>> THEN ""
     ELSE IF includes("request") \/ includes("http") \/ lower = <<"manual">>
     THEN "Http"
     ELSE IF includes("recurrence") \/ includes("schedule")
     THEN "Recurrence"
     ELSE ""

\* ipcMain.handle('azure:getTriggerType'): a call of getTriggerType, from
\* the cache, or with its triggers request settled with resp. The type
\* found for the first trigger (env.trigger), or 'Unknown', is cached; a
\* failed request rejects the invocation and caches nothing.
GetTriggerType(resp) ==
  LET trigger == env.trigger
      n == 1 - typeLookup.n
      triggerType ==
        IF trigger.defined /\ trigger.propertiesKind # ""
        THEN trigger.propertiesKind
        ELSE IF trigger.defined /\ trigger.kind # "" THEN trigger.kind
        ELSE IF trigger.defined /\ inferTriggerTypeFromName(trigger.name) # ""
        THEN inferTriggerTypeFromName(trigger.name)
        ELSE "Unknown"
  IN IF typeLookup.cached # ""
     THEN Commit([Cur EXCEPT !.typeLookup.n = n,
                             !.typeLookup.result = typeLookup.cached,
                             !.typeLookup.remote = FALSE])
     ELSE IF resp.kind = "http" /\ resp.status = 200
     THEN Commit([Cur EXCEPT !.triggerTypeCache = TRUE,
                             !.typeLookup = [cached |-> triggerType, n |-> n,
                                             result |-> triggerType,
                                             remote |-> TRUE]])
     ELSE Commit([Cur EXCEPT !.typeLookup.n = n,
                             !.typeLookup.result = "rejected",
                             !.typeLookup.remote = TRUE])

\* The renderer asking for the workflow's trigger type, again and again.
NextTypes == \E resp \in Responses : GetTriggerType(resp)

\* The batches, and the renderer asking for the workflow's trigger type.
NextCaches ==
  \/ Next
  \/ \E resp \in Responses : GetTriggerType(resp)

\* ---------------------------------------------------------------- getRuns
\* statusFilter?: string[] -- not given, or a list of status names
NoFilter == [given |-> FALSE, list |-> <<>>]
Filter(list) == [given |-> TRUE, list |-> list]

\* No getRuns call made yet.
NoSearch ==
  [pc |-> "idle", pages |-> <<<<>>>>, startTime |-> 0, endTime |-> 0,
   statusFilter |-> NoFilter, nextUrl |-> 0, allRuns |-> <<>>,
   shouldContinue |-> TRUE, fetched |-> <<>>, failures |-> 0,
   result |-> [kind |-> "none"]]

\* run.properties?.status || 'Unknown'
RunStatus(entry) == IF entry.status = "" THEN "Unknown" ELSE entry.status

\* !statusFilter || statusFilter.length === 0 || statusFilter.includes(s)
Includes(statusFilter, s) ==
  \/ ~statusFilter.given
  \/ Len(statusFilter.list) = 0
  \/ \E k \in DOMAIN statusFilter.list : statusFilter.list[k] = s

\* what getRuns pushes for a listed run
Found(entry) ==
  [id |-> entry.id, status |-> RunStatus(entry), startTime |-> entry.startTime]

\* the scan of a page with the window's end left out of the window
RECURSIVE ScanRunsEndExclusive(_, _, _)
ScanRunsEndExclusive(q, runs, k) ==
  IF k > Len(runs) THEN q
  ELSE IF ~runs[k].hasStart THEN ScanRunsEndExclusive(q, runs, k + 1)
  ELSE IF runs[k].startTime < q.startTime
  THEN [q EXCEPT !.shouldContinue = FALSE]
  ELSE IF /\ runs[k].startTime < q.endTime
          /\ Includes(q.statusFilter, RunStatus(runs[k]))
  THEN ScanRunsEndExclusive([q EXCEPT !.allRuns = Append(@, Found(runs[k]))],
                            runs, k + 1)
  ELSE ScanRunsEndExclusive(q, runs, k + 1)

\* `for (const run of runs)`, from the k-th run of the page
RECURSIVE ScanRuns(_, _, _)
ScanRuns(q, runs, k) ==
  IF k > Len(runs) THEN q
  ELSE IF ~runs[k].hasStart THEN ScanRuns(q, runs, k + 1)
  ELSE IF runs[k].startTime < q.startTime
  THEN [q EXCEPT !.shouldContinue = FALSE]
  ELSE IF /\ runs[k].startTime <= q.endTime
          /\ Includes(q.statusFilter, RunStatus(runs[k]))
  THEN ScanRuns([q EXCEPT !.allRuns = Append(@, Found(runs[k]))],
                runs, k + 1)
  ELSE ScanRuns(q, runs, k + 1)

\* azureGet(nextUrl) is issued for page k
FetchPage(q, k) ==
  [q EXCEPT !.pc = "page", !.nextUrl = k, !.fetched = Append(@, k)]

\* `return allRuns`
ReturnRuns(q) ==
  [q EXCEPT !.pc = "returned", !.result = [kind |-> "value", v |-> q.allRuns]]

\* the rest of the loop body that goes on to the next page whatever the
\* scan has seen
AfterScanKeepGoing(q) ==
  IF q.nextUrl < Len(q.pages)
  THEN [q EXCEPT !.pc = "sleep", !.nextUrl = @ + 1]
  ELSE ReturnRuns([q EXCEPT !.nextUrl = 0])

\* the rest of the loop body after the scan of a page: break, or nextLink
\* and the pause before the next page
AfterScan(q) ==
  IF ~q.shouldContinue THEN ReturnRuns(q)
  ELSE IF q.nextUrl < Len(q.pages)
  THEN [q EXCEPT !.pc = "sleep", !.nextUrl = @ + 1]
  ELSE ReturnRuns([q EXCEPT !.nextUrl = 0])

\* azureGet threw: nothing catches it, getRuns rejects
PageFailed(q) == [q EXCEPT !.pc = "rejected", !.result = [kind |-> "error"]]

\* ipcMain.handle('azure:getRuns'): getRuns up to its first await, on a
\* service whose listing of the workflow's runs is pages
GetRuns(pages, startTime, endTime, statusFilter) ==
  /\ search.pc \in {"idle", "returned", "rejected"}
  /\ search' = FetchPage([NoSearch EXCEPT !.pages = pages,
                                          !.startTime = startTime,
                                          !.endTime = endTime,
                                          !.statusFilter = statusFilter], 1)

\* the page asked for arrives (ok) or its request fails; failures counts
\* the requests the service has failed
SearchRespond(ok) ==
  /\ search.pc = "page"
  /\ search' =
       IF ok
       THEN AfterScan(ScanRuns([search EXCEPT !.shouldContinue = TRUE],
                               search.pages[search.nextUrl], 1))
       ELSE PageFailed([search EXCEPT !.failures = @ + 1])

\* sleep(300) between two pages is over
SearchTimerFires ==
  /\ search.pc = "sleep"
  /\ search' = FetchPage(search, search.nextUrl)

\* What the properties of a listed run can be: a start time (or none) and
\* a status (or none).
ListedKinds ==
  {[hasStart |-> TRUE, startTime |-> tm, status |-> st] :
     tm \in 1..4, st \in {"Failed", ""}}
  \cup {[hasStart |-> FALSE, startTime |-> 0, status |-> st] :
          st \in {"Failed", ""}}

\* The service lists runs by descending start time.
Descending(l) ==
  \A a \in DOMAIN l, b \in DOMAIN l :
    (a < b /\ l[a].hasStart /\ l[b].hasStart) =>
       l[a].startTime >= l[b].startTime

\* The k-th listed run gets the identifier k.
WithIds(l) ==
  [k \in DOMAIN l |->
     [id |-> k, hasStart |-> l[k].hasStart, startTime |-> l[k].startTime,
      status |-> l[k].status]]

\* A listing served as one page, or as two pages cut anywhere.
Paged(l) ==
  {<<l>>} \cup {<<SubSeq(l, 1, k), SubSeq(l, k + 1, Len(l))>> : k \in 0..Len(l)}

\* The descending listings of up to max runs.
Listings(max) ==
  UNION {Paged(WithIds(l)) :
           l \in {m \in UNION {[1..n -> ListedKinds] : n \in 0..max} :
                    Descending(m)}}

\* Runs started at T+8, T+2, T-5 and T-10 for T = 10.
ExampleListing ==
  <<WithIds(<<[hasStart |-> TRUE, startTime |-> 18, status |-> "Failed"],
              [hasStart |-> TRUE, startTime |-> 12, status |-> "Failed"],
              [hasStart |-> TRUE, startTime |-> 5, status |-> "Failed"],
              [hasStart |-> TRUE, startTime |-> 0, status |-> "Failed"]>>)>>

\* The searches made: every listing of up to max runs with a window inside
\* the listed times (also an empty one) and every kind of filter, and the
\* example.
Searches(max) ==
  {[pages |-> pg, startTime |-> w[1], endTime |-> w[2], statusFilter |-> f] :
     pg \in Listings(max),
     w \in {<<2, 3>>, <<3, 2>>},
     f \in {NoFilter, Filter(<<>>), Filter(<<"Failed">>),
            Filter(<<"Unknown">>)}}
  \cup {[pages |-> ExampleListing, startTime |-> 10, endTime |-> 15,
         statusFilter |-> NoFilter]}

\* Everything but the run search.
resubmitVars ==
  <<env, phase, runIds, sequential, useCallbackUrl, prefetch, i, run,
    results, completedCount, resubmitCancelled, abortSignal,
    resubmitAbortController, triggerNameCache, callbackUrlCache,
    inputsLinkCache, events, faultsLeft, discoveryCalls, triggerTypeCache,
    cachedTriggerName, typeLookup>>

\* One run search per behaviour (a call keeps all its state in locals, so
\* calls do not influence each other).
NextSearch ==
  \/ /\ search.pc = "idle"
     /\ \E c \in Searches(MaxListed) :
          GetRuns(c.pages, c.startTime, c.endTime, c.statusFilter)
     /\ UNCHANGED <<resubmitVars, credential, pacing>>
  \/ \E ok \in BOOLEAN : SearchRespond(ok)
       /\ UNCHANGED <<resubmitVars, credential, pacing>>
  \/ SearchTimerFires /\ UNCHANGED <<resubmitVars, credential, pacing>>

\* ------------------------------------------------------- authentication
\* ipcMain.handle('azure:login'): login assigns a new credential before it
\* awaits the interactive sign-in.
Login ==
  /\ credential' = TRUE
  /\ UNCHANGED <<resubmitVars, search, pacing>>

\* ipcMain.handle('azure:logout'): this.credential = null
Logout ==
  /\ credential' = FALSE
  /\ UNCHANGED <<resubmitVars, search, pacing>>

\* credential.getToken(...) of task r's pending call resolves: the fetch is
\* sent with the token, whatever this.credential is by now.
TokenGranted(r) ==
  IF r = 0
  THEN /\ phase = "prefetching"
       /\ prefetch.req.to = "token"
       /\ Commit([Cur EXCEPT !.prefetch.req = azureRequest(@.method)])
  ELSE /\ phase = "running"
       /\ run[r].req.to = "token"
       /\ Commit([Cur EXCEPT !.run[r].req = azureRequest(@.method)])

\* The batches, with signing in and out at any time.
NextAuth ==
  \/ Next
  \/ Login
  \/ Logout
  \/ \E r \in Tasks : TokenGranted(r)

\* --------------------------------- the earlier resubmitRuns handler
\* src/src/main/index.ts: one run at a time, with an adaptive delay between
\* runs.  i is 0-based as in the source; the run at position i has the
\* identifier i + 1.
NoBatch ==
  [pc |-> "idle", total |-> 0, i |-> 0, interRunDelay |-> 0,
   resubmitCancelled |-> FALSE, results |-> NewResults, events |-> <<>>]

\* interRunDelay after a success: Math.max(MIN_DELAY, Math.floor(d * 0.9))
DelayAfterSuccess(delay) == Max(MIN_DELAY, (delay * 9) \div 10)

\* interRunDelay after a failure: Math.min(MAX_DELAY, d * 2)
DelayAfterFailure(delay) == Min(MAX_DELAY, delay * 2)

\* The head of the for loop: the loop condition, then the cancellation
\* test, then the await of resubmitRunWithRetry.
LoopHead(b) ==
  IF b.i >= b.total THEN [b EXCEPT !.pc = "returned"]
  ELSE IF b.resubmitCancelled
  THEN [b EXCEPT !.pc = "returned", !.results.cancelled = TRUE,
                 !.events = Append(@, [runId |-> 0, status |-> "cancelled",
                                       current |-> b.i])]
  ELSE [b EXCEPT !.pc = "run"]

\* ipcMain.handle('azure:resubmitRuns') is invoked with n run identifiers.
ResubmitRunsAdaptive(n) ==
  /\ pacing.pc = "idle"
  /\ pacing' = LoopHead([NoBatch EXCEPT !.total = n,
                                        !.interRunDelay = 1500,
                                        !.resubmitCancelled = FALSE])
  /\ UNCHANGED <<resubmitVars, search, credential>>

\* resubmitRunWithRetry of the run at position i resolves (ok) or throws.
RunSettled(ok) ==
  /\ pacing.pc = "run"
  /\ LET runId == pacing.i + 1
         b == IF ok
              THEN [pacing EXCEPT
                      !.results.success = @ + 1,
                      !.interRunDelay = DelayAfterSuccess(@),
                      !.events = Append(@, [runId |-> runId,
                                            status |-> "success",
                                            current |-> pacing.i + 1])]
              ELSE [pacing EXCEPT
                      !.results.failed = @ + 1,
                      !.results.errors = Append(@, runId),
                      !.interRunDelay = DelayAfterFailure(@),
                      !.events = Append(@, [runId |-> runId,
                                            status |-> "error",
                                            current |-> pacing.i + 1])]
     IN  pacing' = IF pacing.i < pacing.total - 1
                   THEN [b EXCEPT !.pc = "sleep"]
                   ELSE LoopHead([b EXCEPT !.i = @ + 1])
  /\ UNCHANGED <<resubmitVars, search, credential>>

\* The setTimeout of the inter-run delay fires.
DelayElapsed ==
  /\ pacing.pc = "sleep"
  /\ pacing' = LoopHead([pacing EXCEPT !.i = @ + 1])
  /\ UNCHANGED <<resubmitVars, search, credential>>

\* ipcMain.handle('azure:cancelResubmit') of the earlier handler.
CancelResubmitAdaptive ==
  /\ ~pacing.resubmitCancelled
  /\ pacing' = [pacing EXCEPT !.resubmitCancelled = TRUE]
  /\ UNCHANGED <<resubmitVars, search, credential>>

NextPacing ==
  \/ \E n \in 0..MaxBatch : ResubmitRunsAdaptive(n)
  \/ \E ok \in BOOLEAN : RunSettled(ok)
  \/ DelayElapsed
  \/ CancelResubmitAdaptive


\* ------------------------------------------------------- initial states
\* A callback URL and a trigger-input envelope for the behaviours that do
\* not look at them.
PlainUrl == [pathname |-> <<"/", "invoke">>, query |-> "sig"]

ExampleInputs ==
  [kind |-> "object", method |-> "POST", relativePath |-> <<>>,
   headers |-> [h \in {"Content-Type"} |-> "application/xml"],
   hasBody |-> TRUE,
   body |-> Obj([k \in {"$content", "$content-type"} |->
                   IF k = "$content" THEN "<a/>" ELSE "application/xml"])]

\* The same callback URL with a trailing slash in its path.
SlashUrl == [pathname |-> <<"/", "invoke", "/">>, query |-> "sig"]

\* Header objects of an envelope: none, either spelling, both, and an empty
\* value under the first spelling.
HeaderObjects ==
  {[h \in {} |-> ""],
   [h \in {"Content-Type"} |-> "application/xml"],
   [h \in {"content-type"} |-> "text/plain"],
   [h \in {"Content-Type", "content-type"} |->
      IF h = "Content-Type" THEN "application/xml" ELSE "text/plain"],
   [h \in {"Content-Type", "content-type"} |->
      IF h = "Content-Type" THEN "" ELSE "text/plain"]}

\* Bodies of an envelope: null, a string, content wrappers with, without
\* and with an empty $content-type, and an object that is no wrapper.
Bodies ==
  {Null, Str("plain"),
   Obj([k \in {"$content", "$content-type"} |->
          IF k = "$content" THEN "<a/>" ELSE "application/xml"]),
   Obj([k \in {"$content"} |-> "<a/>"]),
   Obj([k \in {"$content", "$content-type"} |->
          IF k = "$content" THEN "<a/>" ELSE ""]),
   Obj([k \in {"$content-type"} |-> "text/csv"])}

\* The parsed trigger inputs: envelopes, and JSON that is no object.
TriggerInputs ==
  {[kind |-> "object", method |-> m, relativePath |-> p, headers |-> h,
    hasBody |-> (b # Undefined), body |-> b] :
     m \in {"", "post", "POST", "PUT"},
     p \in {<<>>, <<"/", "orders">>, <<"orders", "/">>},
     h \in HeaderObjects,
     b \in Bodies \cup {Undefined}}
  \cup {Str("raw"), Null}

\* The environment of the standard-resubmit behaviours.
StandardEnv ==
  [sizes |-> 0..MaxRuns, modes |-> BOOLEAN, callback |-> {FALSE},
   overlap |-> FALSE, inOrder |-> FALSE, tokens |-> FALSE,
   timerRuns |-> {},
   service |-> "coarse",
   mayFail |-> 1..MaxRuns,
   marked |-> {}, listening |-> TRUE, faults |-> MaxFaults, now |-> 0,
   triggerInputs |-> ExampleInputs, callbackUrl |-> PlainUrl,
   trigger |-> [defined |-> TRUE, propertiesKind |-> "Http", kind |-> "",
                name |-> <<"manual">>]]

\* The state after construction (module load of main/index.ts).
Constructed ==
  /\ phase = "idle"
  /\ runIds = <<>>
  /\ sequential = FALSE
  /\ useCallbackUrl = FALSE
  /\ prefetch = NoPrefetch
  /\ i = 1
  /\ run = <<>>
  /\ results = NewResults
  /\ completedCount = 0
  /\ resubmitCancelled = FALSE
  /\ abortSignal = "null"
  /\ resubmitAbortController = "null"
  /\ callbackUrlCache = FALSE
  /\ inputsLinkCache = {}
  /\ events = <<>>
  /\ discoveryCalls = 0
  /\ triggerTypeCache = FALSE
  /\ typeLookup = [cached |-> "", n |-> 0, result |-> "", remote |-> FALSE]
  /\ search = NoSearch
  /\ pacing = NoBatch

\* Batches of up to MaxRuns runs in both modes.
Init ==
  /\ Constructed
  /\ credential = TRUE
  /\ triggerNameCache = FALSE
  /\ cachedTriggerName = IF triggerNameCache THEN "manual" ELSE ""
  /\ env = StandardEnv
  /\ faultsLeft = MaxFaults

Spec == Init /\ [][Next]_vars

\* One run, every kind of response: the retry executor in detail. The
\* service either answers anything, or fails every request in one way; the
\* trigger name may be cached by an earlier batch.
InitRetry ==
  /\ Constructed
  /\ credential = TRUE
  /\ triggerNameCache \in BOOLEAN
  /\ cachedTriggerName = IF triggerNameCache THEN "manual" ELSE ""
  /\ \E m \in SUBSET {1},
        sv \in {"rich", "client errors", "transient"} :
       env = [StandardEnv EXCEPT !.sizes = {1}, !.service = sv,
                                 !.mayFail = {1}, !.marked = m]
  /\ faultsLeft = MaxFaults

SpecRetry == InitRetry /\ [][Next]_vars

\* More runs than one concurrent batch holds, on a workflow whose trigger
\* name an earlier batch has cached; the service fails only requests of the
\* first and of the last run.
InitPar ==
  /\ Constructed
  /\ credential = TRUE
  /\ triggerNameCache = TRUE
  /\ cachedTriggerName = IF triggerNameCache THEN "manual" ELSE ""
  /\ env = [StandardEnv EXCEPT !.sizes = {CONCURRENCY + Extra},
                               !.modes = {FALSE},
                               !.mayFail = {1, CONCURRENCY + Extra},
                               !.listening = FALSE]
  /\ faultsLeft = MaxFaults

SpecPar == InitPar /\ [][Next]_vars

\* Callback replay and standard resubmit, from construction: the prefetch
\* and every request of the first run may fail.
InitReplay ==
  /\ Constructed
  /\ credential = TRUE
  /\ triggerNameCache = FALSE
  /\ cachedTriggerName = IF triggerNameCache THEN "manual" ELSE ""
  /\ env = [StandardEnv EXCEPT !.callback = BOOLEAN,
                               !.mayFail = {0, 1},
                               !.faults = ReplayFaults]
  /\ faultsLeft = ReplayFaults

SpecReplay == InitReplay /\ [][Next]_vars

\* Callback replay of one run, for every trigger-input envelope and both
\* shapes of the callback URL.
InitEnvelope ==
  /\ Constructed
  /\ credential = TRUE
  /\ triggerNameCache = FALSE
  /\ cachedTriggerName = IF triggerNameCache THEN "manual" ELSE ""
  /\ \E ti \in TriggerInputs, url \in {PlainUrl, SlashUrl} :
       env = [StandardEnv EXCEPT !.sizes = {1}, !.modes = {TRUE},
                                 !.callback = {TRUE},
                                 !.mayFail = {1},
                                 !.faults = EnvelopeFaults,
                                 !.triggerInputs = ti,
                                 !.callbackUrl = url]
  /\ faultsLeft = EnvelopeFaults

SpecEnvelope == InitEnvelope /\ [][Next]_vars

\* Standard batches during which further invocations of azure:resubmitRuns
\* may arrive.
InitOverlap ==
  /\ Constructed
  /\ credential = TRUE
  /\ triggerNameCache = FALSE
  /\ cachedTriggerName = IF triggerNameCache THEN "manual" ELSE ""
  /\ env = [StandardEnv EXCEPT !.overlap = TRUE]
  /\ faultsLeft = MaxFaults

SpecOverlap == InitOverlap /\ [][Next]_vars

\* More runs than one concurrent batch holds, in both modes, the renderer
\* listening, on a service that answers the runs' requests in order and
\* fails only requests of the first run.
InitOrdered ==
  /\ Constructed
  /\ credential = TRUE
  /\ triggerNameCache = TRUE
  /\ cachedTriggerName = IF triggerNameCache THEN "manual" ELSE ""
  /\ env = [StandardEnv EXCEPT !.sizes = {CONCURRENCY + Extra},
                               !.inOrder = TRUE,
                               !.mayFail = {1},
                               !.faults = OrderedFaults]
  /\ faultsLeft = OrderedFaults

SpecOrdered == InitOrdered /\ [][Next]_vars

\* One run on a workflow whose trigger name is cached, against a service
\* that fails in one way, many times over.
InitBackoff ==
  /\ Constructed
  /\ credential = TRUE
  /\ triggerNameCache = TRUE
  /\ cachedTriggerName = IF triggerNameCache THEN "manual" ELSE ""
  /\ \E sv \in {"rate limited", "client errors", "transient"} :
       env = [StandardEnv EXCEPT !.sizes = {1}, !.service = sv,
                                 !.mayFail = {1},
                                 !.faults = BackoffFaults]
  /\ faultsLeft = BackoffFaults

SpecBackoff == InitBackoff /\ [][Next]_vars

\* Callback replay of one run whose identifier may contain the digits 429,
\* on a workflow whose trigger histories may have no inputs or outputs link.
InitNotFound ==
  /\ Constructed
  /\ credential = TRUE
  /\ triggerNameCache = FALSE
  /\ cachedTriggerName = IF triggerNameCache THEN "manual" ELSE ""
  /\ \E m \in SUBSET {1} :
       env = [StandardEnv EXCEPT !.sizes = {1}, !.callback = {TRUE},
                                 !.service = "no link",
                                 !.mayFail = {0, 1}, !.marked = m,
                                 !.faults = NotFoundFaults]
  /\ faultsLeft = NotFoundFaults

SpecNotFound == InitNotFound /\ [][Next]_vars

\* Callback replay of one run, from construction, with the trigger type
\* looked up at any time.
InitCaches ==
  /\ Constructed
  /\ credential = TRUE
  /\ triggerNameCache = FALSE
  /\ cachedTriggerName = IF triggerNameCache THEN "manual" ELSE ""
  /\ env = [StandardEnv EXCEPT !.sizes = {1}, !.callback = {TRUE},
                               !.mayFail = {0, 1},
                               !.faults = CacheFaults]
  /\ faultsLeft = CacheFaults

SpecCaches == InitCaches /\ [][NextCaches]_vars

\* Batches of one run in both modes, from construction: nobody has signed
\* in yet, and the token is obtained in a step of its own.
InitAuth ==
  /\ Constructed
  /\ credential = FALSE
  /\ triggerNameCache = FALSE
  /\ cachedTriggerName = IF triggerNameCache THEN "manual" ELSE ""
  /\ env = [StandardEnv EXCEPT !.sizes = {1}, !.callback = BOOLEAN,
                               !.tokens = TRUE,
                               !.mayFail = {0, 1},
                               !.faults = AuthFaults]
  /\ faultsLeft = AuthFaults

SpecAuth == InitAuth /\ [][NextAuth]_vars

\* Standard batches of up to MaxRuns runs on a workflow with two triggers:
\* any of the runs may have been fired by the second one.
InitTriggers ==
  /\ Constructed
  /\ credential = TRUE
  /\ triggerNameCache = FALSE
  /\ cachedTriggerName = IF triggerNameCache THEN "manual" ELSE ""
  /\ \E fired \in SUBSET (1..MaxRuns) :
       env = [StandardEnv EXCEPT !.timerRuns = fired]
  /\ faultsLeft = MaxFaults

SpecTriggers == InitTriggers /\ [][Next]_vars

\* The first trigger of a workflow's definition, if it has one:
\* properties.kind, kind and name, each possibly missing ("", <<>>).
TriggerDefinitions ==
  {[defined |-> FALSE, propertiesKind |-> "", kind |-> "", name |-> <<>>]}
  \cup {[defined |-> TRUE, propertiesKind |-> pk, kind |-> k, name |-> nm] :
          pk \in {"", "Http"}, k \in {"", "ApiConnection"},
          nm \in UNION {[1..len ->
                           {"manual", "Manual", "HTTP", "request",
                            "Recurrence", "schedule", "When"}] :
                          len \in 0..MaxNameWords}}

\* Trigger-type lookups for every trigger definition, from construction.
InitTypes ==
  /\ Constructed
  /\ credential = TRUE
  /\ triggerNameCache = FALSE
  /\ cachedTriggerName = ""
  /\ \E trigger \in TriggerDefinitions :
       env = [StandardEnv EXCEPT !.trigger = trigger]
  /\ faultsLeft = 0

SpecTypes == InitTypes /\ [][NextTypes]_vars

\* Batches of up to MaxBatch runs of the earlier handler, from construction.
InitPacing ==
  /\ Constructed
  /\ credential = TRUE
  /\ triggerNameCache = FALSE
  /\ cachedTriggerName = ""
  /\ env = StandardEnv
  /\ faultsLeft = 0

SpecPacing == InitPacing /\ [][NextPacing]_vars

\* Batches of two runs in both modes, with failures enough for both runs
\* to end in error.
InitErrors ==
  /\ Constructed
  /\ credential = TRUE
  /\ triggerNameCache = TRUE
  /\ cachedTriggerName = "manual"
  /\ env = [StandardEnv EXCEPT !.sizes = {2}, !.mayFail = {1, 2},
                               !.faults = ErrorFaults]
  /\ faultsLeft = ErrorFaults

SpecErrors == InitErrors /\ [][Next]_vars

\* Run searches, from construction.
InitSearch ==
  /\ Constructed
  /\ credential = TRUE
  /\ triggerNameCache = FALSE
  /\ cachedTriggerName = IF triggerNameCache THEN "manual" ELSE ""
  /\ env = StandardEnv
  /\ faultsLeft = 0

SpecSearch == InitSearch /\ [][NextSearch]_vars

\* The event loop delivers what is pending: a request in flight is
\* eventually answered (at the latest by its timeout) and a timer that is
\* due eventually fires.
Fairness ==
  /\ WF_vars(\E r \in Tasks, resp \in Responses : Respond(r, resp))
  /\ WF_vars(\E r \in Tasks : TimerFires(r))

\* Batches of LiveRuns runs under both protocols and in both modes, with
\* few failures, for the properties that need the event loop's fairness.
InitLive ==
  /\ Constructed
  /\ credential = TRUE
  /\ triggerNameCache = FALSE
  /\ cachedTriggerName = IF triggerNameCache THEN "manual" ELSE ""
  /\ env = [StandardEnv EXCEPT !.sizes = {LiveRuns},
                               !.callback = BOOLEAN,
                               !.mayFail = {0, 1},
                               !.faults = LiveFaults]
  /\ faultsLeft = LiveFaults

SpecLive == InitLive /\ [][Next]_vars /\ Fairness

\* ------------------------------------------------------- derived notions
Runs == DOMAIN run

InFlight == {r \in Runs : run[r].pc \in {"get", "post", "sleep"}}

Started(r) == run[r].attempt >= 1

\* Positions of the runs with a progress event of the given status.
Reported(status) ==
  {r \in Runs : \E k \in DOMAIN events :
                   events[k].runId = runIds[r] /\ events[k].status = status}

EventsOf(r) ==
  {k \in DOMAIN events : events[k].runId = runIds[r]
                         /\ events[k].status \in {"success", "error"}}

ErrorIds == {results.errors[k].runId : k \in DOMAIN results.errors}

\* Runs given up because of cancellation: abandoned in their retry loop,
\* skipped at the head of processRun, or never reached by the loop.
SkippedByCancel ==
  {r \in Runs : run[r].outcome \in {"aborted", "skipped"}
                \/ run[r].pc = "pending"}

IsPrefix(a, b) == Len(a) <= Len(b) /\ \A k \in DOMAIN a : a[k] = b[k]

BatchIndex(r) == (r - 1) \div CONCURRENCY

\* --------------------------------------------------------------- claims

C2_CancelMidBatch ==
  [][(phase = "running" /\ resubmitCancelled') =>
       /\ \A r \in Runs : ~Started(r) => run'[r].attempt = 0
       /\ resubmitCancelled =>
            /\ results'.success >= results.success
            /\ results'.failed >= results.failed
            /\ IsPrefix(results.errors, results'.errors)
            /\ \A r \in Runs : run[r].pc = "done" => run'[r] = run[r]
       /\ phase' = "returned" => results'.cancelled]_vars

\* C3: in sequential mode at most one run is in flight, runs start in input
\* order, and a run has started only if every earlier run has had its
\* success or error event.
C3_SequentialOrder ==
  (phase # "idle" /\ sequential) =>
    /\ Cardinality(InFlight) <= 1
    /\ \A a \in Runs, b \in Runs :
         (a < b /\ Started(b)) =>
            /\ Started(a)
            /\ run[a].pc = "done"
            /\ a \in Reported("success") \cup Reported("error")

\* C3 witness: the second run is in flight after the first one failed.
C3_Witness ==
  /\ phase = "running" /\ sequential
  /\ Len(runIds) >= 2
  /\ run[2].pc \in {"get", "post"}
  /\ 1 \in Reported("error")

\* C4: backing off after a 429 whose Retry-After header gave N seconds, the
\* delay announced to onRetry and slept is N * 1000 ms.
C4_RetryAfterHonoured ==
  \A r \in Runs :
    (/\ run[r].pc = "sleep"
     /\ run[r].err.hasStatus
     /\ run[r].err.statusCode = 429
     /\ run[r].err.retryAfterMs > 0)
    => run[r].retry.delayMs = run[r].err.retryAfterMs

\* C5: when every resubmit POST is answered with a 4xx status other than
\* 429 (whatever its body), the operation is invoked at most 5 times and,
\* without a cancel, the batch returns with the run reported as error and
\* counted in failed.
C5_ClientErrorsCapped ==
  (env.service = "client errors" /\ triggerNameCache) =>
    \A r \in Runs :
      /\ run[r].attempt <= MAX_PERMANENT_RETRIES
      /\ (phase = "returned" /\ ~resubmitCancelled) =>
           /\ run[r].outcome = "error"
           /\ results.failed = 1
           /\ r \in Reported("error")

\* C6: executeWithRetry never gives up on a rate-limited failure: no run
\* ends in error with a rate-limited error, a run ends in error only at the
\* cap of another class, and it is abandoned only once the signal is set.
C6_RateLimitNeverGivesUp ==
  /\ \A k \in DOMAIN results.errors :
       /\ results.errors[k].error.tokens \cap Indicators = {}
       /\ results.errors[k].error.status # 429
  /\ \A r \in Runs :
       /\ run[r].outcome = "error" => run[r].attempt >= MAX_PERMANENT_RETRIES
       /\ run[r].outcome = "aborted" => abortSignal = "aborted"
       /\ (run[r].pc = "sleep" /\ isRateLimitError(run[r].err)) =>
            run[r].retry = [attempt |-> run[r].attempt,
                            reason |-> "Rate-limited (429)",
                            delayMs |-> RateLimitBackoff(run[r].attempt),
                            current |-> completedCount]

\* C6 witness: a sixth consecutive rate-limited failure is backed off.
C6_Witness ==
  \E r \in Runs :
    /\ run[r].pc = "sleep"
    /\ run[r].attempt > MAX_PERMANENT_RETRIES
    /\ isRateLimitError(run[r].err)

C8_OneDiscoveryInTotal ==
  (\A r \in Runs : run[r].attempt <= 1) => discoveryCalls <= 1

\* C8 (amended): calls made one after the other, each run calling once,
\* issue at most one discovery request in total, and in sequential mode a
\* discovery request is in flight only while the cache has no entry.
C8_OneDiscoverySequential ==
  sequential =>
    /\ (\A r \in Runs : run[r].attempt <= 1) => discoveryCalls <= 1
    /\ \A r \in Runs : run[r].pc = "get" => ~triggerNameCache

\* C8 witness: the second run posts on the cached name, one discovery made.
C8_Witness ==
  /\ sequential /\ phase = "running"
  /\ Len(runIds) >= 2
  /\ run[1].outcome = "success"
  /\ run[2].pc = "post" /\ run[2].attempt = 1
  /\ discoveryCalls = 1

\* C9: in non-sequential mode at most CONCURRENCY runs are in flight, and a
\* run has started only if every run of an earlier batch is finished and
\* every earlier run of its own batch has started.
C9_BoundedBatches ==
  (phase # "idle" /\ ~sequential) =>
    /\ Cardinality(InFlight) <= CONCURRENCY
    /\ \A a \in Runs, b \in Runs :
         (a < b /\ Started(b)) =>
            /\ BatchIndex(a) < BatchIndex(b) => run[a].pc = "done"
            /\ BatchIndex(a) = BatchIndex(b) => run[a].pc # "pending"

\* C9 witness: a run of the second batch is in flight after a first batch
\* in which one run failed terminally.
C9_Witness ==
  /\ phase = "running" /\ ~sequential
  /\ \E b \in Runs : BatchIndex(b) = 1 /\ run[b].pc = "post"
  /\ \E a \in Runs : BatchIndex(a) = 0 /\ run[a].outcome = "error"

\* C10: a run whose retry loop ended with AbortError is not in failed, not
\* in errors and has no error event, and the returned result has
\* cancelled = TRUE.
C10_AbortedMeansCancelled ==
  \A r \in Runs :
    run[r].outcome = "aborted" =>
      /\ runIds[r] \notin ErrorIds
      /\ r \notin Reported("error")
      /\ results.failed = Cardinality(Reported("error"))
      /\ phase = "returned" => results.cancelled

\* Terminal progress events (success, error) in the renderer's log.
TerminalEvents(log) ==
  {k \in DOMAIN log : log[k].status \in {"success", "error"}}

\* C11: once cancellation has been requested, a network call of a run that
\* was in flight may still finish, but its result is discarded: whether it
\* ends in success or in failure, neither success nor failed changes and no
\* success or error event is emitted.
C11_InFlightResultDiscarded ==
  [][(phase = "running" /\ resubmitCancelled) =>
       /\ results'.success = results.success
       /\ results'.failed = results.failed
       /\ results'.errors = results.errors
       /\ Cardinality(TerminalEvents(events'))
            = Cardinality(TerminalEvents(events))]_vars

\* C12: resubmitRuns never rejects, whatever the runs' outcomes (success,
\* terminal failure, cancellation) and whatever the prefetch did: no run's
\* error leaves processRun, and an invocation that has ended has returned a
\* result with the two counts, the errors list (one entry per failed run)
\* and the cancelled flag.
C12_NeverRejects ==
  /\ phase # "rejected"
  /\ \A r \in Runs : run[r].outcome # "rejected"
  /\ phase = "returned" =>
       /\ results.success \in 0..Len(runIds)
       /\ results.failed \in 0..Len(runIds)
       /\ results.cancelled \in BOOLEAN
       /\ Len(results.errors) = results.failed
       /\ DOMAIN results = {"success", "failed", "cancelled", "errors"}

\* C12 witness: a callback batch has returned after a terminal failure of
\* one run and a success of another.
C12_Witness ==
  /\ phase = "returned" /\ useCallbackUrl
  /\ results.failed = 1
  /\ results.success = 1

\* C13: once cancel has been requested during a batch, (1) no run is left
\* in a backoff sleep: a run sleeping at the moment of the request is woken
\* by it and ends as cancelled, whatever failure it was retrying, (2) no
\* attempt is made any more, and (3) provided the requests in flight are
\* answered, resubmitRuns eventually returns.
C13_CancelEndsBatch ==
  /\ [](resubmitCancelled => \A r \in Runs : run[r].pc # "sleep")
  /\ [][(phase = "running" /\ resubmitCancelled') =>
          \A r \in Runs :
            /\ run[r].pc = "sleep" => run'[r].outcome = "aborted"
            /\ resubmitCancelled => run'[r].attempt = run[r].attempt]_vars
  /\ ((phase \in {"prefetching", "running"} /\ resubmitCancelled)
        ~> phase = "returned")

\* C13 witness: a batch has returned after a cancel that woke a run from
\* the backoff sleep announced for it.
C13_Witness ==
  /\ phase = "returned" /\ resubmitCancelled
  /\ \E r \in Runs : run[r].outcome = "aborted" /\ run[r].retry # NoRetry

C15_SignalMonotonic ==
  [][(phase \in {"prefetching", "running"}
      /\ phase' \in {"prefetching", "running"}) =>
       /\ resubmitCancelled => resubmitCancelled'
       /\ abortSignal = "aborted" => abortSignal' = "aborted"]_vars

\* C16: whenever no batch is going on (before the first one, and when
\* resubmitRuns has returned after success, failures or cancellation) the
\* inputs-link cache is empty; the entries it holds during a batch were
\* written by that batch's own prefetch, so none is served to a later batch.
C16_InputsLinkCacheCleared ==
  /\ phase \in {"idle", "returned"} => inputsLinkCache = {}
  /\ inputsLinkCache # {} =>
       /\ useCallbackUrl
       /\ Cardinality(inputsLinkCache) <= prefetch.cached
       /\ inputsLinkCache \subseteq {runIds[k] : k \in DOMAIN runIds}

\* C16 witness: a callback batch whose prefetch had cached links has
\* returned after a run failed terminally and a cancel was requested.
C16_Witness ==
  /\ phase = "returned" /\ useCallbackUrl
  /\ prefetch.cached >= 1
  /\ results.failed = 1
  /\ resubmitCancelled

\* C17: in callback mode a failed prefetch is not fatal: the handler does
\* not reject but goes on to the runs, every run is attempted through
\* replayRun, which resolves per run what the prefetch did not cache, and
\* the prefetch failure is counted neither in failed nor in errors.
C17_PrefetchFailureNonFatal ==
  prefetch.pc = "failed" =>
    /\ phase \in {"running", "returned"}
    /\ results.failed = Cardinality(Reported("error"))
    /\ Len(results.errors) = results.failed
    /\ ErrorIds \subseteq {runIds[r] : r \in Reported("error")}
    /\ \A r \in Runs :
         /\ run[r].pc \in {"pending", "get", "cb", "hist", "inputs", "replay",
                           "sleep", "done"}
         /\ run[r].pc = "cb" => triggerNameCache
         /\ run[r].pc \in {"hist", "inputs", "replay"} =>
              (triggerNameCache /\ callbackUrlCache)
         /\ run[r].pc = "hist" => runIds[r] \notin inputsLinkCache
    /\ (phase = "returned" /\ ~resubmitCancelled) =>
         \A r \in Runs : /\ Started(r)
                         /\ run[r].outcome \in {"success", "error"}

\* C17 witness: after a failed prefetch the first run has been replayed
\* and the second one is fetching its own trigger history.
C17_Witness ==
  /\ prefetch.pc = "failed"
  /\ phase = "running"
  /\ \E a \in Runs, b \in Runs :
       /\ run[a].outcome = "success"
       /\ run[b].pc = "hist"

\* The value of current in the event before the k-th one of the log.
CurrentBefore(k) == IF k = 1 THEN 0 ELSE events[k - 1].current

\* C18: over the progress events of one batch, current (completedCount)
\* never decreases, is one more than before in each success or error event
\* and unchanged in every other event, and never exceeds total, which is
\* runIds.length; a retrying event carries the count of its moment.
C18_CompletedCountMonotonic ==
  /\ [](/\ completedCount <= Len(runIds)
        /\ \A k \in DOMAIN events :
             /\ events[k].total = Len(runIds)
             /\ events[k].current <= events[k].total
             /\ events[k].current >= CurrentBefore(k)
             /\ events[k].current =
                  IF events[k].status \in {"success", "error"}
                  THEN CurrentBefore(k) + 1 ELSE CurrentBefore(k)
        /\ \A r \in Runs :
             run[r].pc = "sleep" => run[r].retry.current <= completedCount)
  /\ [][phase' \in {"running", "returned"} /\ phase # "returned" =>
          /\ completedCount' >= completedCount
          /\ completedCount' - completedCount
               = Cardinality(TerminalEvents(events'))
                 - Cardinality(TerminalEvents(events))
          /\ \A k \in DOMAIN events' :
               k > Len(events) => events'[k].current = completedCount'
          /\ \A r \in Runs :
               (run[r].pc # "sleep" /\ run'[r].pc = "sleep") =>
                 run'[r].retry.current = completedCount']_vars

\* C18 witness: a run is retrying with current = 1 after another run of
\* its batch was reported.
C18_Witness ==
  /\ completedCount = 1
  /\ Len(events) >= 1
  /\ \E r \in Runs : run[r].pc = "sleep" /\ run[r].retry.current = 1

\* The request a task has in flight, if any.
RequestsInFlight ==
  {run[r].req : r \in {k \in Runs : run[k].req # NoRequest}}
  \cup (IF prefetch.req # NoRequest THEN {prefetch.req} ELSE {})

\* C19: callback replay sends the bearer credential only to the management
\* API: the request fetching the trigger inputs from the inputs-link URI and
\* the replay request to the callback URL carry no Authorization header,
\* whatever the envelope; the management requests do carry it.
C19_NoBearerOutsideManagement ==
  /\ \A q \in RequestsInFlight :
       /\ q.to \in {"management", "inputsLink", "callback"}
       /\ q.authorization <=> q.to = "management"
  /\ \A r \in Runs :
       /\ run[r].pc = "inputs" =>
            (run[r].req.to = "inputsLink" /\ ~run[r].req.authorization)
       /\ run[r].pc = "replay" =>
            (run[r].req.to = "callback" /\ ~run[r].req.authorization)
       /\ run[r].pc \in {"get", "post", "cb", "hist"} =>
            run[r].req.to = "management"

\* C19 witness: the replay request of an envelope that has headers of its
\* own is in flight.
C19_Witness ==
  \E r \in Runs :
    /\ run[r].pc = "replay"
    /\ env.triggerInputs.kind = "object"
    /\ DOMAIN env.triggerInputs.headers # {}
    /\ run[r].req.body # NoBody

\* The path a with the relative path b appended: one "/" between them.
Joined(a, b) ==
  LET left == IF Len(a) > 0 /\ a[Len(a)] = "/"
              THEN SubSeq(a, 1, Len(a) - 1) ELSE a
      right == IF Len(b) > 0 /\ b[1] = "/" THEN SubSeq(b, 2, Len(b)) ELSE b
  IN left \o <<"/">> \o right

\* C20: the replay request built from an envelope has
\*   method: the envelope's method upper-cased, POST when absent;
\*   content type: the body's $content-type when the body is a content
\*     wrapper that has one, else the envelope's Content-Type header, else
\*     application/json;
\*   body: the wrapper's $content when the body is a content wrapper, else
\*     the envelope's body;
\*   target: the callback URL, with relativePath appended when present.
\* For {method POST, Content-Type application/xml, body {$content "<a/>",
\* $content-type application/xml}} it is a POST of <a/> as application/xml.
C20_ReplayRequest ==
  \A r \in Runs :
    (run[r].pc = "replay" /\ env.triggerInputs.kind = "object") =>
      LET e == env.triggerInputs
          q == run[r].req
          isWrapper == /\ e.hasBody
                       /\ e.body.kind = "object"
                       /\ "$content" \in DOMAIN e.body.f
          has(f, k) == k \in DOMAIN f /\ f[k] # ""
      IN /\ q.method = IF e.method = "" THEN "POST"
                        ELSE IF e.method \in {"post", "POST"} THEN "POST"
                        ELSE "PUT"
         /\ q.contentType =
              IF isWrapper /\ has(e.body.f, "$content-type")
              THEN e.body.f["$content-type"]
              ELSE IF has(e.headers, "Content-Type")
              THEN e.headers["Content-Type"]
              ELSE IF has(e.headers, "content-type")
              THEN e.headers["content-type"]
              ELSE "application/json"
         /\ q.body =
              IF isWrapper THEN [kind |-> "text", v |-> e.body.f["$content"]]
              ELSE IF ~e.hasBody \/ e.body.kind = "null" THEN NoBody
              ELSE IF e.body.kind = "string"
              THEN [kind |-> "text", v |-> e.body.v]
              ELSE [kind |-> "json", v |-> e.body]
         /\ q.url.query = env.callbackUrl.query
         /\ q.url.pathname =
              IF e.relativePath = <<>> THEN env.callbackUrl.pathname
              ELSE Joined(env.callbackUrl.pathname, e.relativePath)
         /\ e = ExampleInputs =>
              /\ q.method = "POST"
              /\ q.contentType = "application/xml"
              /\ q.body = [kind |-> "text", v |-> "<a/>"]
              /\ q.url = env.callbackUrl

\* C20 witness: the replay request of the example envelope is in flight.
C20_Witness ==
  /\ env.triggerInputs = ExampleInputs
  /\ \E r \in Runs : run[r].pc = "replay" /\ run[r].req.method = "POST"

\* All pages of a listing, one after the other.
RECURSIVE Flatten(_)
Flatten(pages) ==
  IF pages = <<>> THEN <<>> ELSE Head(pages) \o Flatten(Tail(pages))

\* Whether a listed run starts in the window and has a status asked for.
Wanted(q, entry) ==
  /\ entry.hasStart
  /\ q.startTime <= entry.startTime
  /\ entry.startTime <= q.endTime
  /\ \/ ~q.statusFilter.given
     \/ q.statusFilter.list = <<>>
     \/ (IF entry.status = "" THEN "Unknown" ELSE entry.status)
          \in {q.statusFilter.list[k] : k \in DOMAIN q.statusFilter.list}

\* The identifiers of the wanted runs of a listing, in listing order.
RECURSIVE WantedIds(_, _)
WantedIds(q, l) ==
  IF l = <<>> THEN <<>>
  ELSE (IF Wanted(q, Head(l)) THEN <<Head(l).id>> ELSE <<>>)
       \o WantedIds(q, Tail(l))

\* C21: over a listing in descending start-time order, getRuns returns
\* exactly the listed runs that start in [startTime, endTime] and whose
\* status is in statusFilter (any status when the filter is absent or
\* empty), in listing order and each with its own start time and status;
\* of runs at T+8, T+2, T-5, T-10 and the window [T, T+5] it returns only
\* the run at T+2.
C21_WindowAndFilter ==
  (search.pc = "returned" /\ Descending(Flatten(search.pages))) =>
    LET l == Flatten(search.pages)
        v == search.result.v
    IN /\ search.result.kind = "value"
       /\ [k \in DOMAIN v |-> v[k].id] = WantedIds(search, l)
       /\ \A k \in DOMAIN v :
            /\ v[k].startTime = l[v[k].id].startTime
            /\ v[k].status = IF l[v[k].id].status = "" THEN "Unknown"
                             ELSE l[v[k].id].status
       /\ search.pages = ExampleListing =>
            [k \in DOMAIN v |-> v[k].startTime] = <<12>>

\* C21 witness: a search over two pages has returned one run, after runs
\* newer than the window and before a run older than it.
C21_Witness ==
  /\ search.pc = "returned"
  /\ Len(search.pages) = 2
  /\ Len(search.result.v) = 1
  /\ \E a \in DOMAIN Flatten(search.pages),
        b \in DOMAIN Flatten(search.pages) :
       /\ Flatten(search.pages)[a].startTime > search.endTime
       /\ Flatten(search.pages)[b].hasStart
       /\ Flatten(search.pages)[b].startTime < search.startTime

\* Whether a page lists a run that started before the window.
HasOlder(q, page) ==
  \E k \in DOMAIN page : page[k].hasStart /\ page[k].startTime < q.startTime

\* C26: getRuns asks for the pages in order and for each at most once; it
\* asks for no page after one on which a run older than startTime is listed;
\* and when a page request fails, getRuns rejects at that step, without a
\* value (nothing of what it had collected is returned) and without asking
\* for that or any other page again.
C26_StopsAndPropagates ==
  /\ [](/\ \A k \in DOMAIN search.fetched :
             /\ search.fetched[k] = k
             /\ k > 1 => ~HasOlder(search, search.pages[k - 1])
        /\ (search.pc = "sleep" =>
              ~HasOlder(search, search.pages[Len(search.fetched)]))
        /\ (search.failures > 0 =>
              /\ search.failures = 1
              /\ search.pc = "rejected"
              /\ search.result = [kind |-> "error"])
        /\ (search.pc = "returned" => search.result.kind = "value"))
  /\ [][/\ search.pc = "rejected" => search' = search
        /\ (search.pc = "page" /\ search'.fetched = search.fetched) =>
              search'.pc \in {"returned", "rejected", "sleep"}
        /\ (search.pc = "page" /\ search'.pc = "rejected") =>
              /\ search'.fetched = search.fetched
              /\ search'.allRuns = search.allRuns]_vars

\* C26 witness: the request for the second page failed after the first
\* page had given a run, and the search was rejected.
C26_Witness ==
  /\ search.pc = "rejected"
  /\ Len(search.fetched) = 2
  /\ search.allRuns # <<>>

\* The Cancelled progress event of a batch at its present counts.
CancelledEvent ==
  [runId |-> 0, status |-> "cancelled", current |-> completedCount,
   total |-> Len(runIds)]

ReasonOf(error) ==
  IF (error.hasStatus /\ error.statusCode = 429)
     \/ error.tokens \cap Indicators # {}
  THEN "Rate-limited (429)"
  ELSE IF error.hasStatus /\ error.statusCode \in 400..499
  THEN "Client error"
  ELSE "Transient error"

\* C23: every backoff sleep of executeWithRetry is entered in the step that
\* calls onRetry, once, with the number of the attempt that just failed, the
\* reason of its class and the delay that is then slept; onRetry is called
\* at no other moment: not for the failure that is propagated at the cap,
\* not for a success, and never once the signal is set.
C23_OnRetryBeforeSleep ==
  /\ [](\A r \in Runs :
          /\ run[r].pc = "sleep" =>
               /\ run[r].onRetryCalls = run[r].attempt
               /\ run[r].retry.attempt = run[r].attempt
               /\ run[r].retry.reason = ReasonOf(run[r].err)
               /\ run[r].retry.delayMs = run[r].sleepMs
               /\ run[r].sleepMs >= 1000
          /\ run[r].pc \in {"get", "post", "cb", "hist", "inputs", "replay"}
               => run[r].onRetryCalls = run[r].attempt - 1
          /\ run[r].outcome \in {"error", "success"} =>
               run[r].onRetryCalls = run[r].attempt - 1)
  /\ [][(phase = "running" /\ phase' \in {"running", "returned"}) =>
          \A r \in Runs :
            /\ (run[r].pc # "sleep" /\ run'[r].pc = "sleep")
                 <=> run'[r].onRetryCalls = run[r].onRetryCalls + 1
            /\ run'[r].onRetryCalls \in
                 {run[r].onRetryCalls, run[r].onRetryCalls + 1}
            /\ abortSignal = "aborted" =>
                 run'[r].onRetryCalls = run[r].onRetryCalls]_vars

\* C23 witness: the run ended with the failure of its fifth attempt, after
\* four announced retries.
C23_Witness ==
  \E r \in Runs :
    /\ run[r].outcome = "error"
    /\ run[r].attempt = MAX_PERMANENT_RETRIES
    /\ run[r].onRetryCalls = MAX_PERMANENT_RETRIES - 1

\* The cap (ms) of the backoff delay of a failure class.
CapOf(reason) ==
  IF reason = "Rate-limited (429)" THEN 300000
  ELSE IF reason = "Client error" THEN 10000
  ELSE 60000

\* min(1000 * 2^(n-1), cap)
ClaimedDelay(n, cap) == IF 1000 * Pow2(n - 1) < cap THEN 1000 * Pow2(n - 1)
                        ELSE cap

\* C24: the delay announced and slept after failed attempt n is
\* min(1000 * 2^(n-1), cap), with cap 300000 ms for a rate-limited, 10000 ms
\* for a permanent and 60000 ms for a transient failure; it is at least
\* 1000 ms, at most the cap, and not below the delay of any earlier attempt
\* of the class, for every n an execution reaches.
C24_BackoffDelays ==
  \A r \in Runs :
    run[r].pc = "sleep" =>
      LET n == run[r].attempt
          cap == CapOf(run[r].retry.reason)
      IN /\ run[r].sleepMs = ClaimedDelay(n, cap)
         /\ run[r].retry.delayMs = run[r].sleepMs
         /\ run[r].sleepMs >= 1000
         /\ run[r].sleepMs <= cap
         /\ \A m \in 1..(n - 1) : ClaimedDelay(m, cap) <= run[r].sleepMs

\* C24 witness: a rate-limited run sleeps after an attempt whose exponent
\* is beyond the clamp, for the cap of its class.
C24_Witness ==
  \E r \in Runs :
    /\ run[r].pc = "sleep"
    /\ run[r].attempt >= 12
    /\ run[r].retry.reason = "Rate-limited (429)"
    /\ run[r].sleepMs = 300000

\* C25: in standard mode (1) within one invocation of resubmitRun (one
\* attempt of the run) the resubmit POST is issued at most once: as the
\* invocation's first request when the trigger name is cached, or right
\* after its run-detail GET, and when the POST has settled the invocation
\* is over; (2) a POST is in flight, and a run succeeds, only with the
\* trigger name resolved; (3) a run whose POST has succeeded issues no
\* further request in the batch.
C25_OnePostPerInvocation ==
  /\ [](~useCallbackUrl =>
          \A r \in Runs :
            /\ run[r].pc = "post" =>
                 (triggerNameCache /\ run[r].req = azureRequest("POST"))
            /\ run[r].outcome = "success" => triggerNameCache
            /\ run[r].err.name # "none"
                 /\ run[r].err.text = "Could not determine trigger name"
                 => run[r].pc = "sleep")
  /\ [][(/\ phase = "running"
         /\ phase' \in {"running", "returned"}
         /\ ~useCallbackUrl) =>
          \A r \in Runs :
            /\ (/\ run'[r].pc = "post"
                /\ (run[r].pc # "post"
                    \/ run'[r].attempt # run[r].attempt)) =>
                 \/ /\ run[r].pc = "get"
                    /\ run'[r].attempt = run[r].attempt
                 \/ /\ run[r].pc \in {"pending", "sleep"}
                    /\ run'[r].attempt = run[r].attempt + 1
                    /\ triggerNameCache
            /\ run[r].pc = "post" =>
                 (run'[r] = run[r] \/ run'[r].pc \in {"sleep", "done"})
            /\ run[r].outcome = "success" => run'[r] = run[r]]_vars

\* C25 witness: the run's POST has succeeded in its second invocation,
\* after the first invocation's POST had failed.
C25_Witness ==
  \E r \in Runs :
    /\ ~useCallbackUrl
    /\ run[r].outcome = "success"
    /\ run[r].attempt = 2
    /\ run[r].onRetryCalls = 1
    /\ discoveryCalls = 0

\* The run identifiers a batch asks for.
Requested == {runIds[k] : k \in DOMAIN runIds}

\* C27: prefetchTriggerHistories stops paginating exactly when every
\* requested run has an inputs-link cache entry or the listing is exhausted:
\* it does not return while the last page read names a further page and a
\* requested run is still without an entry, whatever the listing (also one
\* that lists a run more than once), and it does not go on to a further
\* page once every requested run has an entry.
C27_StopsWhenResolvedOrExhausted ==
  /\ (phase = "running" /\ prefetch.pc = "done" /\ prefetch.more) =>
       Requested \subseteq inputsLinkCache
  /\ (phase = "prefetching" /\ prefetch.pc = "pause" /\ Requested # {}) =>
       ~(Requested \subseteq inputsLinkCache)

\* The first request replayRun has to make, given which of the trigger
\* name, the callback URL and the run's inputs link it has.
FirstMissing(name, callback, link) ==
  IF ~name THEN "get"
  ELSE IF ~callback THEN "cb"
  ELSE IF ~link THEN "hist"
  ELSE "inputs"

\* C28: in callback mode every request a run issues is the one for the
\* first thing replayRun still lacks at that moment: with the trigger name,
\* the callback URL and the run's inputs link cached, an invocation goes
\* straight to the inputs-link fetch and from there to the callback request,
\* without any management request; a management request (run detail,
\* listCallbackUrl, trigger history) is issued only for an entry that is
\* missing, and only the inputs-link fetch and the callback request go
\* elsewhere. After a prefetch that returned, no run asks for the trigger
\* name, and no run asks for the history of a run whose link is cached.
C28_OnlyMissingFetched ==
  /\ [](useCallbackUrl =>
          \A r \in Runs :
            /\ run[r].pc \in {"get", "cb", "hist"} =>
                 run[r].req = azureRequest(IF run[r].pc = "cb" THEN "POST"
                                           ELSE "GET")
            /\ run[r].pc \in {"inputs", "replay"} =>
                 run[r].req.to # "management"
            /\ run[r].pc = "hist" => runIds[r] \notin inputsLinkCache
            /\ (prefetch.pc = "done" /\ phase = "running") =>
                 (triggerNameCache /\ run[r].pc # "get"))
  /\ [][(/\ phase \in {"prefetching", "running"}
         /\ phase' \in {"running", "returned"}
         /\ useCallbackUrl) =>
          \A r \in Runs :
            (/\ run'[r].req # NoRequest
             /\ (run'[r].pc # run[r].pc
                 \/ run'[r].attempt # run[r].attempt)) =>
              LET link == runIds[r] \in inputsLinkCache' IN
              run'[r].pc =
                IF run'[r].attempt # run[r].attempt
                THEN FirstMissing(triggerNameCache', callbackUrlCache', link)
                ELSE IF run[r].pc = "get"
                THEN FirstMissing(TRUE, callbackUrlCache', link)
                ELSE IF run[r].pc = "cb"
                THEN FirstMissing(TRUE, TRUE, link)
                ELSE IF run[r].pc = "hist" THEN "inputs"
                ELSE "replay"]_vars

\* C28 witness: after a prefetch that cached everything, a run's callback
\* request is in flight in its first invocation, and the only run-detail
\* request of the batch was the prefetch's.
C28_Witness ==
  /\ useCallbackUrl /\ prefetch.pc = "done"
  /\ discoveryCalls = 1
  /\ \E r \in Runs :
       /\ run[r].pc = "replay"
       /\ run[r].attempt = 1
       /\ runIds[r] \in inputsLinkCache
       /\ callbackUrlCache

\* The error replayRun throws when a run has no inputs or outputs link.
IsNotFound(error) ==
  /\ error.name = "Error"
  /\ error.text = "No trigger inputs/outputs link found"

\* C29: a replayRun invocation that failed because the run has no inputs
\* or outputs link has no request in flight (none went to the callback
\* URL), it is retried only below the cap of MAX_PERMANENT_RETRIES
\* attempts, and a run reported with this error has ended with the outcome
\* error at that cap.
C29_NotFoundBounded ==
  \A r \in Runs :
    /\ IsNotFound(run[r].err) =>
         /\ run[r].pc = "sleep"
         /\ run[r].req = NoRequest
         /\ run[r].attempt < MAX_PERMANENT_RETRIES
    /\ \A k \in DOMAIN results.errors :
         (results.errors[k].runId = runIds[r]
          /\ results.errors[k].error.text
               = "No trigger inputs/outputs link found") =>
           /\ run[r].outcome = "error"
           /\ run[r].attempt = MAX_PERMANENT_RETRIES

\* C30: the step in which a callback batch returns, whose tail calls
\* clearInputsLinkCache, leaves the inputs-link cache empty and the
\* trigger-name, trigger-type and callback-URL caches as they were; the
\* inputs-link cache is emptied by no other step.
C30_ClearsOnlyInputsLinks ==
  [][/\ (phase \in {"prefetching", "running"} /\ phase' = "returned"
         /\ useCallbackUrl) =>
          /\ inputsLinkCache' = {}
          /\ triggerNameCache' = triggerNameCache
          /\ triggerTypeCache' = triggerTypeCache
          /\ callbackUrlCache' = callbackUrlCache
     /\ (inputsLinkCache # {} /\ inputsLinkCache' = {}) =>
          (phase \in {"prefetching", "running"} /\ phase' = "returned")
    ]_vars

\* C30 witness: a callback batch whose prefetch had cached an inputs link
\* has returned; the inputs-link cache is empty and the three other caches
\* still hold their entries.
C30_Witness ==
  /\ phase = "returned" /\ useCallbackUrl
  /\ prefetch.cached >= 1
  /\ inputsLinkCache = {}
  /\ triggerNameCache /\ triggerTypeCache /\ callbackUrlCache

\* C31: an authenticated request starts with getToken: a task gets a
\* management request, or the token for one, under way only in a step that
\* starts with a credential present; a run's operation called without a
\* credential, and needing the management API, fails with the
\* not-authenticated error in the same step, with nothing sent; and a run
\* that failed this way has no request in flight and backs off as for a
\* transient failure.
C31_TokenFirst ==
  /\ [](\A r \in Runs :
          /\ run[r].req # NotSent
          /\ run[r].err = notAuthenticatedError =>
               /\ run[r].pc = "sleep"
               /\ run[r].req = NoRequest
               /\ run[r].retry.reason = "Transient error"
               /\ run[r].attempt < MAX_PERMANENT_RETRIES)
  /\ [](prefetch.req # NotSent)
  /\ [][\A r \in 0 .. Len(runIds') :
          LET old == IF r = 0 THEN prefetch.req
                     ELSE IF r \in DOMAIN run THEN run[r].req
                     ELSE NoRequest
              new == IF r = 0 THEN prefetch'.req ELSE run'[r].req
          IN /\ (/\ new.to \in {"management", "token"}
                 /\ new # old
                 /\ old.to # "token") => credential
             /\ (/\ ~credential
                 /\ r > 0
                 /\ phase = "running"
                 /\ run'[r].attempt = run[r].attempt + 1
                 /\ FirstMissing(~useCallbackUrl \/ triggerNameCache,
                                 ~useCallbackUrl \/ callbackUrlCache,
                                 ~useCallbackUrl
                                   \/ runIds[r] \in inputsLinkCache)
                      # "inputs"
                   \/ ~useCallbackUrl) =>
                  /\ new = NoRequest
                  /\ \/ run'[r].err = notAuthenticatedError
                     \/ /\ run'[r].outcome = "error"
                        /\ results'.errors[Len(results'.errors)].error.text
                             = "Not authenticated"]_vars

\* C31 witness: in the middle of a standard batch, after the run-detail
\* request of the run was answered, the resubmit request was not sent for
\* lack of a credential: the run is asleep after its first attempt failed
\* with the not-authenticated error.
C31_Witness ==
  /\ phase = "running" /\ ~useCallbackUrl
  /\ ~credential
  /\ discoveryCalls = 1 /\ triggerNameCache
  /\ \E r \in Runs :
       /\ run[r].err = notAuthenticatedError
       /\ run[r].attempt = 1

\* C32: the workflow's trigger-name entry, once set, keeps its value
\* whoever writes it again, and every run that goes on to its resubmit
\* request does so with the value the entry holds; a run that starts with
\* the entry set issues no run-detail request.
C32_RaceWritesSameValue ==
  /\ [](\A r \in Runs :
          (~useCallbackUrl /\ run[r].pc = "post") =>
            (triggerNameCache /\ run[r].triggerName = cachedTriggerName))
  /\ [][/\ triggerNameCache =>
             (triggerNameCache' /\ cachedTriggerName' = cachedTriggerName)
        /\ (triggerNameCache /\ phase = "running" /\ ~useCallbackUrl) =>
             \A r \in Runs :
               run'[r].attempt # run[r].attempt => run'[r].pc # "get"
       ]_vars

\* C33 as stated: after a successful lookup the type is the explicit type
\* field if there is one; otherwise Http for a name containing "request",
\* "http" or "manual", Recurrence for one containing "recurrence" or
\* "schedule" (case-insensitive), and Unknown for any other.
C33_ContainsManual ==
  LET trigger == env.trigger
      has(w) == \E k \in DOMAIN trigger.name : Lower(trigger.name[k]) = w
      claimed ==
        IF trigger.defined /\ trigger.propertiesKind # ""
        THEN trigger.propertiesKind
        ELSE IF trigger.defined /\ trigger.kind # "" THEN trigger.kind
        ELSE IF has("request") \/ has("http") \/ has("manual") THEN "Http"
        ELSE IF has("recurrence") \/ has("schedule") THEN "Recurrence"
        ELSE "Unknown"
  IN typeLookup.cached # "" => typeLookup.cached = claimed

\* C33 (amended): as above with the name equal to "manual" in place of
\* containing it; the type is cached for the workflow, and a call that finds
\* the entry returns it and makes no remote request, while a call that does
\* not find it makes one and returns what it caches.
C33_EqualsManual ==
  /\ [](LET trigger == env.trigger
            has(w) ==
              \E k \in DOMAIN trigger.name : Lower(trigger.name[k]) = w
            expected ==
              IF trigger.defined /\ trigger.propertiesKind # ""
              THEN trigger.propertiesKind
              ELSE IF trigger.defined /\ trigger.kind # "" THEN trigger.kind
              ELSE IF \/ has("request") \/ has("http")
                      \/ (Len(trigger.name) = 1 /\ has("manual"))
              THEN "Http"
              ELSE IF has("recurrence") \/ has("schedule") THEN "Recurrence"
              ELSE "Unknown"
        IN /\ typeLookup.cached # "" => typeLookup.cached = expected
           /\ triggerTypeCache <=> typeLookup.cached # ""
           /\ typeLookup.result \in {"", "rejected", expected})
  /\ [][typeLookup'.n # typeLookup.n =>
          IF typeLookup.cached # ""
          THEN /\ ~typeLookup'.remote
               /\ typeLookup'.result = typeLookup.cached
               /\ typeLookup'.cached = typeLookup.cached
          ELSE /\ typeLookup'.remote
               /\ typeLookup'.result \in {"rejected", typeLookup'.cached}
       ]_vars

\* C33 witness: a second lookup was answered from the cache with the type
\* the heuristic gives to a name that contains "manual" among other words.
C33_Witness ==
  /\ env.trigger.defined
  /\ env.trigger.propertiesKind = "" /\ env.trigger.kind = ""
  /\ env.trigger.name = <<"When", "Manual">>
  /\ typeLookup.cached = "Unknown"
  /\ typeLookup.result = "Unknown"
  /\ ~typeLookup.remote

C37_CancelDuringPrefetch ==
  [][/\ (phase = "prefetching" /\ ~resubmitCancelled /\ resubmitCancelled')
          => (phase' = "prefetching" /\ prefetch' = prefetch)
     /\ (phase = "prefetching" /\ resubmitCancelled) =>
          /\ resubmitCancelled'
          /\ phase' \in {"prefetching", "returned"}
          /\ phase' = "returned" =>
               /\ prefetch'.pc \in {"done", "failed"}
               /\ \A r \in DOMAIN run' :
                    run'[r].pc = "pending" /\ run'[r].attempt = 0
               /\ results'.success = 0
               /\ results'.failed = 0
               /\ results'.errors = <<>>
               /\ Len(runIds) > 0 =>
                    /\ results'.cancelled
                    /\ Len(events') = Len(events) + 1
                    /\ events'[Len(events')] =
                         [runId |-> 0, status |-> "cancelled",
                          current |-> 0, total |-> Len(runIds)]
    ]_vars

\* C37 witness: a callback batch of two runs was cancelled during its
\* prefetch, which went on to cache both inputs links; the batch has
\* returned cancelled and no run was started.
C37_Witness ==
  /\ phase = "returned" /\ useCallbackUrl
  /\ Len(runIds) = 2
  /\ prefetch.pc = "done" /\ prefetch.cached = 2
  /\ results = [success |-> 0, failed |-> 0, cancelled |-> TRUE,
                errors |-> <<>>]
  /\ \A r \in Runs : run[r].pc = "pending"

\* C38: once prefetchTriggerHistories has returned, every key of the
\* inputs-link cache (empty when the batch began) is a requested run
\* identifier, and the count returned is the number of requested run
\* identifiers that have a cache entry.
C38_CountIsDistinctRuns ==
  (useCallbackUrl /\ phase = "running" /\ prefetch.pc = "done") =>
    /\ inputsLinkCache \subseteq Requested
    /\ prefetch.cached = Cardinality(inputsLinkCache \cap Requested)

\* C39: in the earlier handler the inter-run delay stays within
\* [MIN_DELAY, MAX_DELAY]: a success multiplies it by 0.9 (floored, not
\* below MIN_DELAY), a failure doubles it (not above MAX_DELAY), and no
\* delay is slept after the last run or once cancellation is requested.
C39_AdaptiveDelay ==
  /\ [](/\ pacing.pc # "idle" =>
             /\ pacing.interRunDelay >= MIN_DELAY
             /\ pacing.interRunDelay <= MAX_DELAY
        /\ pacing.pc = "sleep" =>
             /\ pacing.i < pacing.total - 1
             /\ ~pacing.resubmitCancelled)
  /\ [][LET old == pacing.interRunDelay
            new == pacing'.interRunDelay
        IN  /\ pacing'.results.success = pacing.results.success + 1 =>
                 new = IF (old * 9) \div 10 < 1000 THEN 1000
                       ELSE (old * 9) \div 10
            /\ pacing'.results.failed = pacing.results.failed + 1 =>
                 new = IF old * 2 > 30000 THEN 30000 ELSE old * 2
            /\ (/\ pacing.pc # "idle"
                /\ pacing'.results.success = pacing.results.success
                /\ pacing'.results.failed = pacing.results.failed) =>
                 new = old]_vars

====
